---- MODULE Spec2Model ----
(***************************************************************************)
(* A model of the read/write data plane of manhco_backend: the search      *)
(* cache and request coalescer in front of the Store (SpecSearch), the     *)
(* in-process sync queue (SpecSync), the rate-limited Mangadex client      *)
(* (SpecUpstream), the search cache-key derivation (SpecKey) and the       *)
(* year-range filter of the search engine (SpecYear).                      *)
(*                                                                         *)
(* The program runs on one JavaScript event loop: code between two awaits  *)
(* of real I/O runs to completion, so one action is one such stretch of    *)
(* code (a handler up to its first I/O, or the continuation of an I/O).    *)
(***************************************************************************)
EXTENDS Integers, Sequences, FiniteSets, TLC

VARIABLES
  now,           \* wall clock, in seconds
  \* ---- search cache, coalescer, writers (cache.ts, requestCoalescer, manhwaService.ts)
  searchCache,   \* searchCache: params -> entry
  entityCache,   \* entityCache: manhwa id -> entry
  pending,       \* RequestCoalescer.pending: params -> promise (0: none)
  prom,          \* the promises fn().finally(...) not yet settled, by slot
  lastDone,      \* params -> how the last producer for them completed
  pc,            \* each caller of searchManhwa: idle, waiting, done
  ckey,          \* the params each caller searched for
  cprom,         \* the promise each caller awaits (0: answered from the cache)
  cres,          \* the outcome each caller received
  storeQueries,  \* params -> number of Store search queries executed
  sinceStored,   \* params -> the write operations (Create, SyncOne) since the
                 \* entry of searchCache was stored: none, begun, returned
  writer,        \* the write operation in progress
  \* ---- ManhwaSyncJob (jobs/manhwaSyncJob) and the Store rows it syncs
  queue,         \* ManhwaSyncJob.queue
  isProcessing,  \* ManhwaSyncJob.isProcessing
  inflight,      \* the items of the batch whose syncFromMangadex has not settled
  timers,        \* pending setTimeout(() => this.processQueue(), 2000)
  syncStatus,    \* Store: manhwa id -> syncStatus
  nextUid,       \* the next queue item to be created
  hist,          \* per queue item: what has happened to it so far
  \* ---- mangadexService and the tag cache
  rateLimiter,   \* the record of the global RateLimiterMemory
  loginLimiter,  \* points consumed from endpointLimiters.get('login')
  authToken,     \* whether authToken is set
  req,           \* the client operation of each caller
  tagCache,      \* the entry 'mangadex:tags' of tagCache
  sentNow,       \* HTTP requests sent to Mangadex since the clock last advanced
  loginsSent,    \* login requests sent to Mangadex
  \* ---- the functions studied on their own
  fnIn,          \* the arguments
  fnOut,         \* the result, once the function has been applied
  \* ---- the catalogue operations of manhwaService.ts and the Store rows
  store,         \* Store: manhwa id -> row
  proc           \* the operations in progress, by client and background task

searchVars == <<searchCache, entityCache, pending, prom, lastDone, pc, ckey, cprom,
                cres, storeQueries, sinceStored, writer>>

syncVars == <<queue, isProcessing, inflight, timers, syncStatus, nextUid, hist>>

upVars == <<rateLimiter, loginLimiter, authToken, req, tagCache, sentNow, loginsSent>>

fnVars == <<fnIn, fnOut>>

catVars == <<store, proc>>

vars == <<now, searchVars, syncVars, upVars, fnVars, catVars>>

\* what the search path, and what the sync job, leave alone
searchRest == <<syncVars, upVars, fnVars, catVars>>
syncRest == <<now, searchCache, pending, prom, lastDone, pc, ckey, cprom, cres,
              storeQueries, sinceStored, writer, upVars, fnVars, catVars>>
upRest == <<now, searchVars, syncVars, fnVars, catVars>>
fnRest == <<now, searchVars, syncVars, upVars, catVars>>
catRest == <<searchCache, pending, prom, lastDone, pc, ckey, cprom, cres,
             storeQueries, sinceStored, writer, syncVars, upVars, fnVars>>

----------------------------------------------------------------------------
(* Bounds of the model *)

NCallers == 2      \* concurrent callers of searchManhwa; a caller may call again
MaxQueries == 2    \* Store search queries executed in a run
MaxClock == 300    \* seconds the clock runs

Callers == 1..NCallers

\* The search requests of the model: equal params give equal cache keys.
\* "qx" asks for the external fallback (includeExternal), "ql" does not.
\* One run searches for one of them.
SearchParams == {"ql", "qx"}

\* The keys of the coalescer studied on its own
CoalesceKeys == {"ka", "kb"}

IncludeExternal(k) == k = "qx"

ManhwaIds == {1, 10}

----------------------------------------------------------------------------
(* cache.ts *)

SearchTTL == 300
SearchMaxKeys == 100

NoEntry == [present |-> FALSE]

\* A string is a sequence of tokens; the prefixes are single tokens.
Digit(d) == <<"0", "1", "2", "3", "4", "5", "6", "7", "8", "9">>[d + 1]
Digits(n) == IF n < 10 THEN <<Digit(n)>> ELSE <<Digit(n \div 10), Digit(n % 10)>>

EntityKey(id) == <<"manhwa:entity:">> \o Digits(id)

SearchPattern == <<"search:">>

\* key.includes(pattern)
Includes(key, pattern) ==
  \E i \in 1..(Len(key) - Len(pattern) + 1) :
    SubSeq(key, i, i + Len(pattern) - 1) = pattern

\* an entry of searchCache is served until its ttl has passed
Live(e) == e.present /\ now < e.at + SearchTTL

\* a search cache that never hits
GetSearchCacheMiss(k) == NoEntry

\* getSearchCache(key)
GetSearchCache(k) == IF Live(searchCache[k]) THEN searchCache[k] ELSE NoEntry

\* node-cache's set() throws ECACHEFULL once it holds maxKeys keys; `others` is
\* the number of live entries under the keys of other requests
SetAccepted(others) ==
  others + Cardinality({k \in DOMAIN searchCache : Live(searchCache[k])}) < SearchMaxKeys

\* setSearchCache(key, value): a throwing set is swallowed
SetSearchCache(k, resp, others) ==
  IF SetAccepted(others)
  THEN [searchCache EXCEPT ![k] = [present |-> TRUE, resp |-> resp, at |-> now]]
  ELSE searchCache

\* reading an expired key deletes it
DropExpired(k) ==
  IF searchCache[k].present /\ ~Live(searchCache[k])
  THEN [searchCache EXCEPT ![k] = NoEntry]
  ELSE searchCache

\* invalidatePattern(pattern): filters the keys of entityCache
InvalidatePattern(pattern) ==
  [id \in DOMAIN entityCache |->
     IF entityCache[id].present /\ Includes(EntityKey(id), pattern)
     THEN NoEntry ELSE entityCache[id]]

----------------------------------------------------------------------------
(* errorHandler.ts *)

\* new AppError(message, statusCode, appCode)
AppError(message, statusCode, appCode) ==
  [ok |-> FALSE, kind |-> "AppError", message |-> message, status |-> statusCode,
   appCode |-> appCode]

\* parsePrismaError(err): a ZodError becomes a 400 with err.errors for its
\* appCode; whatever else the error was, an AppError included, a new AppError
\* with err.message, status 500 and the appCode taken from err.meta
ParsePrismaError(err) ==
  IF "name" \in DOMAIN err /\ err.name = "ZodError"
  THEN AppError("Validation failed", 400,
                IF "errors" \in DOMAIN err THEN err.errors ELSE "undefined")
  ELSE AppError(IF "message" \in DOMAIN err THEN err.message ELSE "Unknown error",
                500,
                IF "meta" \in DOMAIN err THEN err.meta ELSE "undefined")

----------------------------------------------------------------------------
(* requestCoalescer: RequestCoalescer *)

NoOutcome == [ok |-> FALSE, kind |-> "none"]

Free == [state |-> "free"]

PromSlots == 1..NCallers

\* the promises in use
PromIds == {p \in PromSlots : prom[p].state # "free"}

NewProm == CHOOSE p \in PromSlots : prom[p].state = "free" /\ \A q \in PromSlots : q < p => prom[q].state # "free"

\* a coalescer whose map never finds the key
HasPendingNever(k) == FALSE

\* this.pending.has(key)
HasPending(k) == pending[k] # 0

\* the producers that have not completed
Executing(k) == {p \in PromIds : prom[p].key = k /\ prom[p].state \in {"running", "external"}}

\* A promise whose fn() has settled runs its finally callback, and the callers'
\* continuations, as microtasks: before any timer, request or I/O completion.
NoMicrotask == \A p \in PromIds : prom[p].state # "fnSettled"

RECURSIVE SumOver(_, _)
SumOver(f, S) == IF S = {} THEN 0 ELSE LET x == CHOOSE y \in S : TRUE IN f[x] + SumOver(f, S \ {x})

TotalQueries == SumOver(storeQueries, DOMAIN storeQueries)

----------------------------------------------------------------------------
(* manhwaService.ts: searchManhwa *)

\* coalesce(key, fn): join the pending promise, or call fn (whose first await
\* is the Store query) and register fn().finally(...)
Coalesce(c, k) ==
  IF HasPending(k)
  THEN /\ cprom' = [cprom EXCEPT ![c] = pending[k]]
       /\ UNCHANGED <<pending, prom, storeQueries>>
  ELSE /\ TotalQueries < MaxQueries
       /\ prom' = [prom EXCEPT ![NewProm] =
                     [key |-> k, state |-> "running", outcome |-> NoOutcome,
                      no |-> storeQueries[k] + 1]]
       /\ pending' = [pending EXCEPT ![k] = NewProm]
       /\ cprom' = [cprom EXCEPT ![c] = NewProm]
       /\ storeQueries' = [storeQueries EXCEPT ![k] = @ + 1]

\* searchManhwa(params), from the cache lookup to the first I/O: a cache hit
\* returns, a miss goes through requestCoalescer.coalesce(cacheKey, fn)
searchManhwa(c, k) ==
  /\ UNCHANGED searchRest
  /\ NoMicrotask
  /\ pc[c] \in {"idle", "done"}
  /\ ckey' = [ckey EXCEPT ![c] = k]
  /\ LET cached == GetSearchCache(k) IN
     IF cached.present
     THEN /\ pc' = [pc EXCEPT ![c] = "done"]
          /\ cres' = [cres EXCEPT ![c] =
                        [ok |-> TRUE, kind |-> "cached", resp |-> cached.resp,
                         stale |-> sinceStored[k] = "returned"]]
          /\ cprom' = [cprom EXCEPT ![c] = 0]
          /\ UNCHANGED <<searchCache, pending, prom, storeQueries>>
     ELSE /\ searchCache' = DropExpired(k)
          /\ pc' = [pc EXCEPT ![c] = "waiting"]
          /\ cres' = [cres EXCEPT ![c] = NoOutcome]
          /\ Coalesce(c, k)
  /\ UNCHANGED <<now, entityCache, lastDone, sinceStored, writer>>

\* fn's promise settles with `out`
FnSettles(p, out, cached) ==
  /\ prom' = [prom EXCEPT ![p] = [@ EXCEPT !.state = "fnSettled", !.outcome = out]]
  /\ lastDone' = [lastDone EXCEPT ![prom[p].key] =
                    [done |-> TRUE, ok |-> out.ok, cached |-> cached, at |-> now,
                     shared |-> \E c, d \in Callers :
                                  /\ c # d
                                  /\ pc[c] = "waiting" /\ cprom[c] = p
                                  /\ pc[d] = "waiting" /\ cprom[d] = p]]

\* The response fn returns: setSearchCache(cacheKey, response), then return
FnReturns(p, resp, others) ==
  /\ searchCache' = SetSearchCache(prom[p].key, resp, others)
  /\ sinceStored' = IF SetAccepted(others)
                    THEN [sinceStored EXCEPT ![prom[p].key] = "none"]
                    ELSE sinceStored
  /\ FnSettles(p, resp, SetAccepted(others))

LocalResponse(p, empty) ==
  [ok |-> TRUE, kind |-> "response", no |-> prom[p].no,
   empty |-> empty, pagination |-> "local", sources |-> <<"local">>]

\* the response built from the records of searchMangadexWithMapping
ExternalResponse(response) ==
  [response EXCEPT !.empty = FALSE, !.pagination = "external",
                   !.sources = <<"local", "mangadex">>]

\* a searchManhwa without the catch around searchMangadexWithMapping
ExternalFailureThrown(response) == [ok |-> FALSE, kind |-> "ExternalApiError"]

\* the catch around searchMangadexWithMapping:
\* response.metadata.sourcesQueried.push('mangadex (failed)')
ExternalFailure(response) ==
  [response EXCEPT !.sources = Append(@, "mangadex (failed)")]

\* searchManhwaFullText completes (the Store answered, or threw)
StoreQueryResult(p, ok, empty, others) ==
  /\ UNCHANGED searchRest
  /\ NoMicrotask
  /\ prom[p].state = "running"
  /\ IF ~ok
     THEN /\ FnSettles(p, [ok |-> FALSE, kind |-> "ManhwaSearchFailed"], FALSE)
          /\ UNCHANGED <<searchCache, sinceStored>>
     ELSE IF empty /\ IncludeExternal(prom[p].key)
     THEN /\ prom' = [prom EXCEPT ![p] = [@ EXCEPT !.state = "external",
                        !.outcome = LocalResponse(p, empty)]]
          /\ UNCHANGED <<searchCache, lastDone, sinceStored>>
     ELSE FnReturns(p, LocalResponse(p, empty), others)
  /\ UNCHANGED <<now, entityCache, pending, pc, ckey, cprom, cres,
                 storeQueries, writer>>

\* searchMangadexWithMapping completes: its records replace the empty local
\* response, or its failure is noted in sourcesQueried
ExternalDone(p, extOk, others) ==
  /\ UNCHANGED searchRest
  /\ NoMicrotask
  /\ prom[p].state = "external"
  /\ FnReturns(p, IF extOk THEN ExternalResponse(prom[p].outcome)
                  ELSE ExternalFailure(prom[p].outcome),
               others)
  /\ UNCHANGED <<now, entityCache, pending, pc, ckey, cprom, cres,
                 storeQueries, writer>>

\* a callback that runs when fn() is fulfilled only: .then in place of .finally
PendingDeleteOnSuccess(p) ==
  IF prom[p].outcome.ok THEN [pending EXCEPT ![prom[p].key] = 0] ELSE pending

\* () => this.pending.delete(key), the callback of .finally: it runs whether
\* fn() was fulfilled or rejected
PendingDelete(p) == [pending EXCEPT ![prom[p].key] = 0]

\* .finally(() => this.pending.delete(key)), then the awaiting callers resume
FinallyDeregister(p) ==
  /\ UNCHANGED searchRest
  /\ prom[p].state = "fnSettled"
  /\ pending' = PendingDelete(p)
  /\ prom' = [prom EXCEPT ![p] = Free]
  /\ pc' = [c \in Callers |-> IF pc[c] = "waiting" /\ cprom[c] = p THEN "done" ELSE pc[c]]
  /\ cres' = [c \in Callers |->
                IF pc[c] = "waiting" /\ cprom[c] = p THEN prom[p].outcome ELSE cres[c]]
  /\ UNCHANGED <<now, searchCache, entityCache, lastDone, ckey, cprom,
                 storeQueries, sinceStored, writer>>

\* what searchManhwa hands its caller: the response, or parsePrismaError(error)
SearchResult(c) == IF cres[c].ok THEN cres[c] ELSE ParsePrismaError(cres[c])

----------------------------------------------------------------------------
(* manhwaService.ts: createManhwa, syncFromMangadex (the writes) *)

Idle == [op |-> "none"]

\* a write commits in the Store: the entries stored so far predate it
WriteBegins ==
  [k \in DOMAIN sinceStored |->
     IF searchCache[k].present /\ sinceStored[k] = "none" THEN "begun" ELSE sinceStored[k]]

\* the write operation returns to its caller
WriteReturns ==
  [k \in DOMAIN sinceStored |-> IF sinceStored[k] = "begun" THEN "returned" ELSE sinceStored[k]]

\* prisma.manhwa.create commits
CreateInsert ==
  /\ UNCHANGED searchRest
  /\ NoMicrotask
  /\ writer = Idle
  /\ writer' = [op |-> "create"]
  /\ sinceStored' = WriteBegins
  /\ UNCHANGED <<now, searchCache, entityCache, pending, prom, lastDone, pc, ckey,
                 cprom, cres, storeQueries>>

\* createManhwa resumes: cache.invalidatePattern('search:'), return
CreateReturn ==
  /\ UNCHANGED searchRest
  /\ NoMicrotask
  /\ writer = [op |-> "create"]
  /\ entityCache' = InvalidatePattern(SearchPattern)
  /\ sinceStored' = WriteReturns
  /\ writer' = Idle
  /\ UNCHANGED <<now, searchCache, pending, prom, lastDone, pc, ckey, cprom, cres,
                 storeQueries>>

\* syncFromMangadex: the fetch succeeded and prisma.manhwa.update commits
SyncUpdate(id) ==
  /\ UNCHANGED searchRest
  /\ NoMicrotask
  /\ writer = Idle
  /\ writer' = [op |-> "sync", id |-> id]
  /\ sinceStored' = WriteBegins
  /\ UNCHANGED <<now, searchCache, entityCache, pending, prom, lastDone, pc, ckey,
                 cprom, cres, storeQueries>>

\* syncFromMangadex resumes: cache.invalidatePattern(`manhwa:entity:${id}`), return
SyncReturn ==
  /\ UNCHANGED searchRest
  /\ NoMicrotask
  /\ writer.op = "sync"
  /\ entityCache' = InvalidatePattern(EntityKey(writer.id))
  /\ sinceStored' = WriteReturns
  /\ writer' = Idle
  /\ UNCHANGED <<now, searchCache, pending, prom, lastDone, pc, ckey, cprom, cres,
                 storeQueries>>

----------------------------------------------------------------------------
(* jobs/manhwaSyncJob: ManhwaSyncJob *)

BatchSize == 2     \* SYNC_BATCH_SIZE
MaxRetries == 3

MaxItems == 2      \* items created by addToQueue in a run

Uids == 1..MaxItems

MinOf(a, b) == IF a < b THEN a ELSE b

NoHist == [attempts |-> 0, failures |-> 0, requeues |-> 0, failedEvents |-> 0,
           successEvents |-> 0, marked |-> FALSE]

\* ManhwaSyncJob after construction, over a Store whose rows have statuses st
SyncFresh(st) ==
  /\ queue = <<>>
  /\ isProcessing = FALSE
  /\ inflight = {}
  /\ timers = 0
  /\ syncStatus = st
  /\ nextUid = 1
  /\ hist = [u \in Uids |-> NoHist]

\* x placed behind the elements of the sorted q that do not compare greater
RECURSIVE InsertByPriority(_, _)
InsertByPriority(q, x) ==
  IF q = <<>> THEN <<x>>
  ELSE IF q[Len(q)].priority <= x.priority THEN Append(q, x)
  ELSE Append(InsertByPriority(SubSeq(q, 1, Len(q) - 1), x), q[Len(q)])

\* this.queue.sort((a, b) => a.priority - b.priority): a stable sort
RECURSIVE SortByPriority(_)
SortByPriority(q) ==
  IF q = <<>> THEN <<>>
  ELSE InsertByPriority(SortByPriority(SubSeq(q, 1, Len(q) - 1)), q[Len(q)])

\* an addToQueue without the test for an item of the same id
AddToQueueAgain(q, id, priority, uid) ==
  SortByPriority(Append(q, [uid |-> uid, id |-> id, priority |-> priority,
                            retries |-> 0]))

\* addToQueue(id, mangadexId, priority), creating item uid
AddToQueue(q, id, priority, uid) ==
  IF \E i \in 1..Len(q) : q[i].id = id
  THEN q
  ELSE SortByPriority(Append(q, [uid |-> uid, id |-> id, priority |-> priority,
                                 retries |-> 0]))

\* the uid the next item gets after addToQueue(id, ...) on q
UidAfter(q, id, uid) == IF \E i \in 1..Len(q) : q[i].id = id THEN uid ELSE uid + 1

\* the `for (const manhwa of outdated)` loop of queueOutdatedManhwa
RECURSIVE AddRows(_, _, _)
AddRows(q, rows, uid) ==
  IF rows = <<>> THEN [queue |-> q, uid |-> uid]
  ELSE AddRows(AddToQueue(q, rows[1].id, rows[1].priority, uid),
               Tail(rows), UidAfter(q, rows[1].id, uid))

\* the retry test of the failure handler
ShouldRetryOnceMore(item) == item.retries <= MaxRetries

ShouldRetry(item) == item.retries < MaxRetries

\* a retry that keeps the priority
RetryPriorityKept(priority) == priority

RetryPriority(priority) == MinOf(priority + 1, 10)

\* a guard that looks at the queue only
BusyNever(q) == q = <<>>

\* if (this.isProcessing || this.queue.length === 0) return
Busy(q) == isProcessing \/ q = <<>>

\* processQueue() up to its await: the guard, the batch spliced off the front
\* of q, and a syncFromMangadex call (a fetch from Mangadex) started for each
\* of its items
ProcessQueue(q) ==
  IF Busy(q)
  THEN /\ queue' = q
       /\ UNCHANGED <<isProcessing, inflight, hist>>
  ELSE LET n == MinOf(BatchSize, Len(q))
           batch == {q[i] : i \in 1..n}
       IN /\ isProcessing' = TRUE
          /\ queue' = SubSeq(q, n + 1, Len(q))
          /\ inflight' = batch
          /\ hist' = [u \in Uids |->
                        IF \E it \in batch : it.uid = u
                        THEN [hist[u] EXCEPT !.attempts = @ + 1]
                        ELSE hist[u]]

\* syncNow(manhwaId, mangadexId)
SyncNow(id) ==
  /\ UNCHANGED syncRest
  /\ UidAfter(queue, id, nextUid) <= MaxItems + 1
  /\ nextUid' = UidAfter(queue, id, nextUid)
  /\ ProcessQueue(AddToQueue(queue, id, 0, nextUid))
  /\ UNCHANGED <<entityCache, timers, syncStatus>>

\* The rows the findMany of queueOutdatedManhwa can have returned by the time
\* the function resumes, each with the priority its syncStatus then gave it
\* (FAILED ? 0 : 1): which rows are older than 24 h, and what became of their
\* status since the read, is the environment's choice.
Outdated ==
  {rows \in UNION {[1..n -> [id : ManhwaIds, priority : {0, 1}]] :
                     n \in 1..Cardinality(ManhwaIds)} :
     \A i, j \in DOMAIN rows : i # j => rows[i].id # rows[j].id}

\* the cron tick, or POST /manhwa/sync/all: queueOutdatedManhwa resumes from
\* its findMany with addToQueue for each row, then processQueue()
QueueOutdatedManhwa(rows) ==
  /\ UNCHANGED syncRest
  /\ nextUid <= MaxItems
  /\ LET added == AddRows(queue, rows, nextUid) IN
       /\ added.uid <= MaxItems + 1
       /\ nextUid' = added.uid
       /\ ProcessQueue(added.queue)
  /\ UNCHANGED <<entityCache, timers, syncStatus>>

\* setTimeout(() => this.processQueue(), 2000) fires
TimerFires ==
  /\ UNCHANGED syncRest
  /\ timers > 0
  /\ timers' = timers - 1
  /\ ProcessQueue(queue)
  /\ UNCHANGED <<entityCache, syncStatus, nextUid>>

\* a processQueue that sets no timer after its batch
BatchEndNoTimer(q, left) ==
  IF left = {}
  THEN isProcessing' = FALSE /\ timers' = timers
  ELSE UNCHANGED <<isProcessing, timers>>

\* Promise.allSettled resolves once every item of the batch has settled:
\* setTimeout if items are queued, and finally isProcessing = false
BatchEnd(q, left) ==
  IF left = {}
  THEN /\ isProcessing' = FALSE
       /\ timers' = IF q # <<>> THEN timers + 1 ELSE timers
  ELSE UNCHANGED <<isProcessing, timers>>

\* the `try` of the batch item: syncFromMangadex resolved, emit sync:success
ItemSucceeds(f) ==
  /\ queue' = queue
  /\ inflight' = inflight \ {f}
  /\ hist' = [hist EXCEPT ![f.uid].successEvents = @ + 1]
  /\ BatchEnd(queue, inflight \ {f})

\* the `catch` of the batch item: syncFromMangadex rejected; re-queue the
\* item or emit sync:failed.  `marked`: the row was set to FAILED.
ItemFails(f, marked) ==
  LET it == f
      q == IF ShouldRetry(it)
           THEN Append(queue, [it EXCEPT !.retries = @ + 1,
                                         !.priority = RetryPriority(@)])
           ELSE queue
  IN /\ queue' = q
     /\ inflight' = inflight \ {f}
     /\ hist' = [hist EXCEPT ![it.uid] =
                   [@ EXCEPT !.failures = @ + 1,
                             !.marked = ~ShouldRetry(it) /\ marked,
                             !.requeues = IF ShouldRetry(it) THEN @ + 1 ELSE @,
                             !.failedEvents = IF ShouldRetry(it) THEN @ ELSE @ + 1]]
     /\ BatchEnd(q, inflight \ {f})

\* syncFromMangadex(item.id, item.mangadexId) settles, at the completion of
\* its last Store write.  "updated": the fetch answered and the
\* prisma.manhwa.update of the row committed (the entity key is invalidated
\* and the call resolves).  Otherwise the fetch or that update failed and the
\* catch runs; "marked": its update to syncStatus FAILED committed and
\* AppError SyncFailed is thrown; "unmarked": that update threw itself.
SyncOutcomes == {"updated", "marked", "unmarked"}

SyncFromMangadex(f, outcome) ==
  /\ UNCHANGED syncRest
  /\ f \in inflight
  /\ IF outcome = "updated"
     THEN /\ syncStatus' = [syncStatus EXCEPT ![f.id] = "CURRENT"]
          /\ entityCache' = InvalidatePattern(EntityKey(f.id))
          /\ ItemSucceeds(f)
     ELSE /\ syncStatus' = IF outcome = "marked"
                           THEN [syncStatus EXCEPT ![f.id] = "FAILED"]
                           ELSE syncStatus
          /\ ItemFails(f, outcome = "marked")
          /\ UNCHANGED entityCache
  /\ UNCHANGED <<nextUid>>

----------------------------------------------------------------------------
(* mangadexService: the rate-limited client *)

RlPoints == 5        \* rateLimiter: points
RlDuration == 1      \*              duration, seconds
RlBlock == 60        \*              blockDuration, seconds
LoginPoints == 30    \* endpointLimiters 'login': points
PaginationCeiling == 10000
ApiMaxLimit == 100
DefaultLimit == 20

\* RateLimiterMemory.consume(1) on record l: a record whose time has run out
\* starts afresh; the consume that first exceeds the points blocks the key
\* for blockDuration; consumes of a blocked key are rejected
Consume(l) ==
  LET rec == IF l.left = 0 THEN [points |-> 1, left |-> RlDuration]
             ELSE [l EXCEPT !.points = @ + 1]
  IN IF rec.points > RlPoints
     THEN [ok |-> FALSE,
           rl |-> IF rec.points <= RlPoints + 1 THEN [rec EXCEPT !.left = RlBlock] ELSE rec]
     ELSE [ok |-> TRUE, rl |-> rec]

\* checkEndpointRateLimit(endpoint): consume a point of the endpoint's limiter
CheckEndpointRateLimit(points) ==
  IF points + 1 > LoginPoints THEN [ok |-> FALSE, points |-> points + 1]
  ELSE [ok |-> TRUE, points |-> points + 1]

\* the paths the client requests, and the protected ones, by segment
Urls == [tags |-> <<"manga", "tag">>, manga |-> <<"manga">>, mangaId |-> <<"manga", ":id">>]
ProtectedPaths == {<<"user">>, <<"manga", "draft">>, <<"upload">>, <<"chapter", "*", "read">>}

\* needsAuth(url): some protected path occurs in the url
NeedsAuth(url) ==
  \E path \in ProtectedPaths : \E i \in 1..(Len(Urls[url]) - Len(path) + 1) :
    \A j \in 1..Len(path) : path[j] = "*" \/ path[j] = Urls[url][i + j - 1]

NoReq == [stage |-> "idle"]

Done(rq, result) == [rq EXCEPT !.stage = "done", !.result = result]

\* the state the client's code acts on
World == [rl |-> rateLimiter, sent |-> sentNow, tags |-> tagCache, logins |-> loginsSent]

\* ensureValidToken() without a usable token: axios.post(.../auth/login)
Login(rq, w, pre) ==
  [ok |-> TRUE,
   w |-> [w EXCEPT !.sent = @ + 1, !.logins = @ + 1],
   rq |-> [rq EXCEPT !.stage = "login", !.pre = pre, !.sends = @ + 1]]

\* axiosInstance.get(url) through the request interceptor: consume a point
\* or fail RateLimitExceeded, log in first for a protected path, send
Request(rq, url, w) ==
  LET c == Consume(w.rl)
      w1 == [w EXCEPT !.rl = c.rl]
  IN IF ~c.ok THEN [ok |-> FALSE, w |-> w1, rq |-> rq]
     ELSE IF NeedsAuth(url) /\ ~authToken THEN Login([rq EXCEPT !.url = url], w1, TRUE)
     ELSE [ok |-> TRUE,
           w |-> [w1 EXCEPT !.sent = @ + 1],
           rq |-> [rq EXCEPT !.stage = "sent", !.url = url, !.sends = @ + 1]]

\* offset + limit, as searchMangadex computes them from the options
Over(rq) ==
  LET limit == MinOf(IF rq.limit = 0 THEN DefaultLimit ELSE rq.limit, ApiMaxLimit)
      offset == (rq.page - 1) * rq.limit
  IN offset + limit > PaginationCeiling

\* searchMangadex(query, options): the pagination check, then GET /manga
SearchMangadex(rq, w) ==
  LET new == [rq EXCEPT !.retry = FALSE, !.unauth = 0, !.relogins = 0, !.resends = 0]
      s == Request(new, "manga", w)
  IN IF Over(rq) THEN [w |-> w, rq |-> Done(new, "PaginationLimitExceeded")]
     ELSE IF s.ok THEN [w |-> s.w, rq |-> s.rq]
     ELSE [w |-> s.w, rq |-> Done(new, "RateLimitExceeded")]

\* searchMangadexWithMapping once getMangadexTags has returned the tags, or
\* [] for a failure: the mapping is cached either way, then searchMangadex
AfterTags(rq, ok, w) ==
  SearchMangadex(rq, [w EXCEPT !.tags = IF ok THEN "full" ELSE "empty"])

\* the operation fails with an error of kind `result`
Fails(rq, result, w) ==
  IF rq.op = "search" /\ rq.url = "tags" THEN AfterTags(rq, FALSE, w)
  ELSE [w |-> w, rq |-> Done(rq, result)]

\* the new state of the client after caller c's operation moved to res
Becomes(c, res) ==
  /\ req' = [req EXCEPT ![c] = res.rq]
  /\ rateLimiter' = res.w.rl
  /\ sentNow' = res.w.sent
  /\ tagCache' = res.w.tags
  /\ loginsSent' = res.w.logins

\* searchMangadexWithMapping(params), to its first request: the tags are
\* taken from the tag cache or fetched, then searchMangadex is called
SearchMangadexWithMapping(c, page, limit) ==
  /\ UNCHANGED upRest
  /\ req[c].stage = "idle"
  /\ LET rq == [op |-> "search", stage |-> "idle", url |-> "tags", retry |-> FALSE,
                pre |-> FALSE, page |-> page, limit |-> limit, sends |-> 0,
                unauth |-> 0, relogins |-> 0, resends |-> 0, result |-> "none"]
         t == Request(rq, "tags", World)
     IN Becomes(c, IF tagCache # "none" THEN SearchMangadex(rq, World)
                   ELSE IF t.ok THEN [w |-> t.w, rq |-> t.rq]
                   ELSE AfterTags(rq, FALSE, t.w))
  /\ UNCHANGED <<entityCache, loginLimiter, authToken>>

\* getMangadexById(mangadexId), to its request
GetMangadexById(c) ==
  /\ UNCHANGED upRest
  /\ req[c].stage = "idle"
  /\ LET rq == [op |-> "byId", stage |-> "idle", url |-> "mangaId", retry |-> FALSE,
                pre |-> FALSE, page |-> 1, limit |-> 0, sends |-> 0,
                unauth |-> 0, relogins |-> 0, resends |-> 0, result |-> "none"]
         t == Request(rq, "mangaId", World)
     IN Becomes(c, IF t.ok THEN [w |-> t.w, rq |-> t.rq]
                   ELSE [w |-> t.w, rq |-> Done(rq, "RateLimitExceeded")])
  /\ UNCHANGED <<entityCache, loginLimiter, authToken>>

\* the answers of Mangadex: 200; an error status other than 401 with the
\* body {result: 'error', ...}; 401 with another body; 401 with the body
\* {result: 'error', ...}; another failure
Responses == {"ok", "mangadexError", "unauthorized", "unauthorizedMangadex", "otherError"}

Is401(resp) == resp \in {"unauthorized", "unauthorizedMangadex"}
IsMangadexError(resp) == resp \in {"mangadexError", "unauthorizedMangadex"}

\* Mangadex answers the request of caller c, and the response interceptor
\* and the caller's continuation run: a body with result 'error' goes to
\* handleMangadexError, whatever the status; another 401 is retried once
Responds(c, resp) ==
  /\ UNCHANGED upRest
  /\ req[c].stage = "sent"
  /\ LET rq == [req[c] EXCEPT !.unauth = IF Is401(resp) THEN @ + 1 ELSE @] IN
     IF resp = "ok"
     THEN /\ Becomes(c, IF rq.url = "tags" THEN AfterTags(rq, TRUE, World)
                        ELSE [w |-> World, rq |-> Done(rq, "ok")])
          /\ UNCHANGED authToken
     ELSE IF IsMangadexError(resp)
     THEN /\ Becomes(c, Fails(rq, "ExternalApiError", World))
          /\ UNCHANGED authToken
     ELSE IF Is401(resp) /\ ~rq.retry
     THEN /\ authToken' = FALSE
          /\ Becomes(c, Login([rq EXCEPT !.retry = TRUE, !.relogins = @ + 1], World, FALSE))
     ELSE /\ Becomes(c, Fails(rq, "ExternalApiError", World))
          /\ UNCHANGED authToken
  /\ UNCHANGED <<entityCache, loginLimiter>>

\* the login request of caller c's operation is answered: the token is
\* stored and the request is sent (again, through axiosInstance.request,
\* after a 401), or ensureValidToken throws
LoginAnswered(c, ok) ==
  /\ UNCHANGED upRest
  /\ req[c].stage = "login"
  /\ LET rq == req[c]
         t == Request(rq, rq.url, World)
     IN IF ~ok
        THEN /\ Becomes(c, Fails(rq, "ExternalApiError", World))
             /\ UNCHANGED authToken
        ELSE /\ authToken' = TRUE
             /\ Becomes(c, IF rq.pre
                           THEN [w |-> [World EXCEPT !.sent = @ + 1],
                                 rq |-> [rq EXCEPT !.stage = "sent", !.sends = @ + 1]]
                           ELSE IF t.ok
                           THEN [w |-> t.w, rq |-> [t.rq EXCEPT !.resends = @ + 1]]
                           ELSE Fails(rq, "RateLimitExceeded", t.w))
  /\ UNCHANGED <<entityCache, loginLimiter>>

UpTickSteps == {1, 60}

\* d seconds pass, while that makes a difference to the client
UpTick(d) ==
  /\ UNCHANGED upRest
  /\ sentNow > 0 \/ rateLimiter.left > 0
  /\ rateLimiter' = [rateLimiter EXCEPT !.left = IF @ > d THEN @ - d ELSE 0]
  /\ sentNow' = 0
  /\ UNCHANGED <<entityCache, loginLimiter, authToken, req, tagCache, loginsSent>>

\* mangadexService and the tag cache after initialisation
UpFresh ==
  /\ rateLimiter = [points |-> 0, left |-> 0]
  /\ loginLimiter = 0
  /\ authToken = FALSE
  /\ req = [c \in Callers |-> NoReq]
  /\ tagCache = "none"
  /\ sentNow = 0
  /\ loginsSent = 0

----------------------------------------------------------------------------
(* manhwaService.ts: the catalogue operations, the entity cache, the Store *)

MaxRows == 2          \* rows the Store comes to hold in a run
NBackground == 1      \* background syncs in a run

EntityTTL == 3600     \* entityCache: stdTTL (CACHE_TTL_DEFAULT), seconds
RefreshAge == 86400   \* shouldRefresh, queueOutdatedManhwa: 24 hours, in seconds

RowIds == 1..MaxRows
\* two concurrent callers of the catalogue operations, and the background
\* tasks
Clients == {1, 2}
Background == {2 + b : b \in 1..NBackground}
Procs == Clients \union Background

\* the mangadexIds of the model
Upstreams == {"U1"}

NoRow == [present |-> FALSE]
NoDate == [present |-> FALSE]
Date(t) == [present |-> TRUE, at |-> t]

\* what a row holds besides the fields of synchronisation: where it came
\* from and when
Content(source, t) == [source |-> source, asOf |-> t]

\* GET /manga/{id} answered at time t
Manga(u, t) == [id |-> u, content |-> Content("Mangadex", t)]

\* transformMangadexData(manga)
TransformMangadexData(manga) ==
  [mangadexId |-> manga.id, dataSource |-> "MANGADX", content |-> manga.content]

\* the row prisma.manhwa.create inserts for createManhwa: the columns not
\* given take their defaults
CreatedRow ==
  [present |-> TRUE, mangadexId |-> "null", dataSource |-> "LOCAL",
   content |-> Content("dto", 0), lastSyncedAt |-> NoDate,
   syncStatus |-> "CURRENT", version |-> 1]

\* the row prisma.manhwa.create inserts for importFromMangadex
ImportedRow(transformed) ==
  [present |-> TRUE, mangadexId |-> transformed.mangadexId,
   dataSource |-> transformed.dataSource, content |-> transformed.content,
   lastSyncedAt |-> Date(now), syncStatus |-> "CURRENT", version |-> 1]

\* an update that adds two to the version
IncrementTwice(version) == version + 2

\* version: { increment: 1 }
Increment(version) == version + 1

\* the row after the update of syncFromMangadex
SyncedRow(row, transformed) ==
  [row EXCEPT !.mangadexId = transformed.mangadexId,
              !.dataSource = transformed.dataSource,
              !.content = transformed.content,
              !.lastSyncedAt = Date(now),
              !.syncStatus = "CURRENT",
              !.version = Increment(@)]

\* the row after the update in the catch of syncFromMangadex
FailedRow(row) == [row EXCEPT !.syncStatus = "FAILED"]

\* a column mangadex_id without its UNIQUE constraint
UniqueViolationNever(u) == FALSE

\* mangadex_id VARCHAR(255) UNIQUE: a row with this mangadexId exists
UniqueViolation(u) ==
  u # "null" /\ \E id \in RowIds : store[id].present /\ store[id].mangadexId = u

\* a row that prisma.manhwa.findUnique({where: {mangadexId}}) finds
FindUniqueByMangadexId(u) ==
  \E id \in RowIds : store[id].present /\ store[id].mangadexId = u

\* a sequence that hands out the id of the newest row again
NextIdReused ==
  IF \E id \in RowIds : store[id].present
  THEN Cardinality({id \in RowIds : store[id].present})
  ELSE Cardinality({id \in RowIds : store[id].present}) + 1

\* id SERIAL: rows are never deleted
NextId == Cardinality({id \in RowIds : store[id].present}) + 1

\* a condition that holds of null as well
TruthyAlways(mangadexId) == TRUE

\* a string or null as a condition
Truthy(mangadexId) == mangadexId # "null"

\* a shouldRefresh that never asks for a refresh
ShouldRefreshNever(manhwa) == FALSE

\* shouldRefresh(manhwa)
ShouldRefresh(manhwa) ==
  IF manhwa.dataSource = "LOCAL" THEN FALSE
  ELSE IF ~manhwa.lastSyncedAt.present THEN TRUE
  ELSE now - manhwa.lastSyncedAt.at > RefreshAge

\* queueOutdatedManhwa: the where clause of its findMany
IsOutdated(row) ==
  /\ row.dataSource = "MANGADX"
  /\ row.mangadexId # "null"
  /\ \/ ~row.lastSyncedAt.present
     \/ row.lastSyncedAt.at < now - RefreshAge
     \/ row.syncStatus = "FAILED"

\* the ttl argument of setEntityCache, which no caller passes
NoTtl == [given |-> FALSE]

\* ttl || 0
OrZero(ttl) == IF ttl.given /\ ttl.seconds # 0 THEN ttl.seconds ELSE 0

\* node-cache: set(key, value, ttl) keeps the value until t; a ttl that is
\* not given is the stdTTL, a ttl of 0 is no limit (t = 0)
NodeCacheSet(value, ttl, stdTTL) ==
  LET seconds == IF ttl.given THEN ttl.seconds ELSE stdTTL
  IN [present |-> TRUE, val |-> value, at |-> now,
      t |-> IF seconds = 0 THEN 0 ELSE now + seconds]

\* node-cache: get(key) misses an entry whose t is not 0 and has passed
NodeCacheGet(e) == IF e.present /\ (e.t = 0 \/ e.t >= now) THEN e ELSE NoEntry

\* setEntityCache(key, value, ttl): entityCache.set(key, value, ttl || 0)
SetEntityCache(cache, id, value, ttl) ==
  [cache EXCEPT ![id] = NodeCacheSet(value, [given |-> TRUE, seconds |-> OrZero(ttl)], EntityTTL)]

\* getEntityCache(key)
GetEntityCache(id) == NodeCacheGet(entityCache[id])

\* The operations in progress.  A client runs one operation; a background
\* task is a syncFromMangadex nobody awaits.  An operation is at the request
\* it awaits: the code between two awaited requests is one step.
NoProc == [stage |-> "idle"]

NoResult == [ok |-> FALSE, kind |-> "none"]

Task(op, stage, id, u, caller) ==
  [op |-> op, stage |-> stage, id |-> id, u |-> u, caller |-> caller,
   force |-> FALSE, genres |-> "none", ids |-> {}, held |-> NoRow, manga |-> NoRow,
   raised |-> NoResult, result |-> NoResult]

\* the operation returns result; what it held is gone
Finish(rec, result) ==
  [rec EXCEPT !.stage = "done", !.result = result, !.caller = rec.op,
              !.ids = {}, !.held = NoRow, !.manga = NoRow]

\* err is thrown inside the try of a service function, whose catch throws
\* parsePrismaError(err)
Throw(rec, err) == [Finish(rec, ParsePrismaError(err)) EXCEPT !.raised = err]

\* an entity handed to the caller; age: the time it had been cached for
Value(entity, cached, age) ==
  [ok |-> TRUE, kind |-> "entity", entity |-> entity, cached |-> cached, age |-> age]

\* a syncFromMangadex(id, u) that has sent its request to Mangadex
SyncTask(op, id, u) == Task(op, "fetch", id, u, op)

\* the background tasks of the run that have not been started: of the slots
\* of proc, those that are not clients
IdleBackground == {b \in DOMAIN proc \ Clients : proc[b].stage = "idle"}

\* the operations once the tasks have been started, each as a background task
RECURSIVE Place(_, _)
Place(pr, tasks) ==
  IF tasks = <<>> THEN pr
  ELSE LET b == CHOOSE x \in DOMAIN pr \ Clients :
                  /\ pr[x].stage = "idle"
                  /\ \A y \in DOMAIN pr \ Clients : pr[y].stage = "idle" => x <= y
       IN Place([pr EXCEPT ![b] = tasks[1]], Tail(tasks))

\* operation p moves to out and starts the tasks
Step(p, out, tasks) ==
  /\ Len(tasks) <= Cardinality(IdleBackground)
  /\ proc' = Place([proc EXCEPT ![p] = out], tasks)

\* The clients are alike: they start their operations in turn.
MayStart(p) ==
  /\ proc[p].stage = "idle"
  /\ \A q \in Clients : q < p => proc[q].stage # "idle"

\* getManhwaById has returned entity: the controller of GET /manhwa/:id
\* responds; that of POST /manhwa/:id/refresh calls syncFromMangadex; the
\* admin route POST /manhwa/sync/:id calls syncNow, and the sync job comes to
\* call syncFromMangadex for the item
AfterGet(rec, entity, cached, age) ==
  IF rec.op = "get" THEN [rec |-> Finish(rec, Value(entity, cached, age)), tasks |-> <<>>]
  ELSE IF ~Truthy(entity.mangadexId)
  THEN [rec |-> Finish(rec, AppError("not a Mangadex manhwa", 400, "bad_input")),
        tasks |-> <<>>]
  ELSE IF rec.op = "refresh"
  THEN [rec |-> [rec EXCEPT !.stage = "fetch", !.u = entity.mangadexId,
                            !.caller = "controller"],
        tasks |-> <<>>]
  ELSE [rec |-> Finish(rec, [ok |-> TRUE, kind |-> "queued"]),
        tasks |-> <<SyncTask("processQueue", rec.id, entity.mangadexId)>>]

\* the ids getManhwaById is called with
IdsAsked == {1}

GetOps == {"get", "refresh", "adminSync"}

\* getManhwaById(id, forceRefresh), to its first request: answered from the
\* entity cache, with a background refresh if the cached entity needs one,
\* or prisma.manhwa.findUnique is sent
GetManhwaById(p, id, forceRefresh, op) ==
  /\ UNCHANGED <<catRest, now>>
  /\ MayStart(p)
  /\ forceRefresh => op = "get"
  /\ LET rec == [Task(op, "find", id, "null", "getManhwaById") EXCEPT !.force = forceRefresh]
         cached == GetEntityCache(id)
     IN IF ~forceRefresh /\ cached.present
        THEN LET r == AfterGet(rec, cached.val, TRUE, now - cached.at)
                 refresh == IF ShouldRefresh(cached.val) /\ Truthy(cached.val.mangadexId)
                            THEN <<SyncTask("refreshInBackground", id, cached.val.mangadexId)>>
                            ELSE <<>>
             IN Step(p, r.rec, refresh \o r.tasks)
        ELSE Step(p, rec, <<>>)
  /\ UNCHANGED <<store, entityCache>>

\* findUnique of getManhwaById is answered
FindAnswered(p) ==
  /\ UNCHANGED <<catRest, now>>
  /\ proc[p].stage = "find"
  /\ LET rec == proc[p]
         manhwa == store[rec.id]
         r == AfterGet(rec, manhwa, FALSE, 0)
     IN IF ~manhwa.present
        THEN /\ Step(p, Throw(rec, AppError("Manhwa not found", 404, "manhwa_not_found")), <<>>)
             /\ UNCHANGED entityCache
        ELSE IF (rec.force \/ ShouldRefresh(manhwa)) /\ Truthy(manhwa.mangadexId)
        THEN /\ Step(p, [rec EXCEPT !.stage = "fetch", !.held = manhwa,
                                    !.u = manhwa.mangadexId], <<>>)
             /\ UNCHANGED entityCache
        ELSE /\ entityCache' = SetEntityCache(entityCache, rec.id, manhwa, NoTtl)
             /\ Step(p, r.rec, r.tasks)
  /\ UNCHANGED store

\* getMangadexById is answered: importFromMangadex sends its create,
\* syncFromMangadex its update
FetchAnswered(p) ==
  /\ UNCHANGED <<catRest, now>>
  /\ proc[p].stage = "fetch"
  /\ LET rec == proc[p] IN
     Step(p, [rec EXCEPT !.manga = Manga(rec.u, now),
                         !.stage = IF rec.op = "import" THEN "insert" ELSE "update"], <<>>)
  /\ UNCHANGED <<store, entityCache>>

\* getMangadexById fails in importFromMangadex
ImportFetchFails(p) ==
  /\ UNCHANGED <<catRest, now>>
  /\ proc[p].stage = "fetch" /\ proc[p].op = "import"
  /\ Step(p, Throw(proc[p], AppError("Failed to fetch manga from Mangadex", 500,
                                     "external_api_error")), <<>>)
  /\ UNCHANGED <<store, entityCache>>

\* what syncFromMangadex returns
Synced == [ok |-> TRUE, kind |-> "success"]

\* syncFromMangadex: its update is committed, the entity key is invalidated
\* and it returns; getManhwaById sends the second findUnique
UpdateCommitted(p) ==
  /\ UNCHANGED <<catRest, now>>
  /\ proc[p].stage = "update"
  /\ LET rec == proc[p] IN
     /\ store' = [store EXCEPT ![rec.id] = SyncedRow(@, TransformMangadexData(rec.manga))]
     /\ entityCache' = InvalidatePattern(EntityKey(rec.id))
     /\ Step(p, IF rec.caller = "getManhwaById" THEN [rec EXCEPT !.stage = "refetch"]
                ELSE Finish(rec, Synced), <<>>)

\* what the update in the catch of syncFromMangadex throws when the Store
\* refuses it
UpdateFailed ==
  [ok |-> FALSE, kind |-> "PrismaClientKnownRequestError",
   message |-> "Update failed"]

\* a getManhwaById whose catch around syncFromMangadex throws the error on
SyncErrorThrown(rec, error) == [rec |-> Throw(rec, error), tasks |-> <<>>]

\* getManhwaById: the catch around syncFromMangadex logs the error and the
\* function continues with the row it read
SyncErrorCaught(rec, error) == AfterGet(rec, rec.held, FALSE, 0)

\* syncFromMangadex: getMangadexById or the update fails and the catch runs.
\* marked: its update is committed and SyncFailed is thrown; otherwise that
\* update throws itself and its error leaves syncFromMangadex.  Either way
\* getManhwaById goes on with the row it read.  (What failed in the try
\* changes nothing another operation sees, so the failure is one step with
\* the update of the catch.)
SyncFails(p, marked) ==
  /\ UNCHANGED <<catRest, now>>
  /\ proc[p].stage = "fetch" /\ proc[p].op # "import"
  /\ LET rec == proc[p]
         error == IF marked THEN AppError("Sync failed", 500, "sync_failed")
                  ELSE UpdateFailed
         r == SyncErrorCaught(rec, error)
     IN /\ store' = IF marked THEN [store EXCEPT ![rec.id] = FailedRow(@)] ELSE store
        /\ IF rec.caller = "getManhwaById"
           THEN /\ entityCache' = SetEntityCache(entityCache, rec.id, rec.held, NoTtl)
                /\ Step(p, r.rec, r.tasks)
           ELSE /\ Step(p, Finish(rec, error), <<>>)
                /\ UNCHANGED entityCache

\* the second findUnique of getManhwaById is answered
RefetchAnswered(p) ==
  /\ UNCHANGED <<catRest, now>>
  /\ proc[p].stage = "refetch"
  /\ LET rec == proc[p]
         updated == store[rec.id]
         r == AfterGet(rec, updated, FALSE, 0)
     IN /\ entityCache' = SetEntityCache(entityCache, rec.id, updated, NoTtl)
        /\ Step(p, r.rec, r.tasks)
  /\ UNCHANGED store

\* the genres of a CreateManhwaDto: none, slugs that all exist, or some
\* slug that does not
GenreLists == {"none", "valid", "invalid"}

\* createManhwa(data), to its first request: the genres are looked up, or
\* with no genres the row is inserted
CreateManhwa(p, genres) ==
  /\ UNCHANGED <<catRest, now>>
  /\ MayStart(p)
  /\ Step(p, [Task("create", IF genres = "none" THEN "insert" ELSE "genres", 0, "null",
                   "createManhwa") EXCEPT !.genres = genres], <<>>)
  /\ UNCHANGED <<store, entityCache>>

\* prisma.genre.findMany of createManhwa is answered
GenresAnswered(p) ==
  /\ UNCHANGED <<catRest, now>>
  /\ proc[p].stage = "genres"
  /\ LET rec == proc[p] IN
     Step(p, IF rec.genres = "invalid"
             THEN Throw(rec, AppError("Invalid genres", 400, "bad_input"))
             ELSE [rec EXCEPT !.stage = "insert"], <<>>)
  /\ UNCHANGED <<store, entityCache>>

\* what prisma.manhwa.create throws on a violated unique constraint
UniqueConstraintFailed ==
  [ok |-> FALSE, name |-> "PrismaClientKnownRequestError",
   message |-> "Unique constraint failed", meta |-> "target: mangadex_id"]

\* importFromMangadex(mangadexId), to its first request: findUnique by
\* mangadexId
ImportFromMangadex(p, u) ==
  /\ UNCHANGED <<catRest, now>>
  /\ MayStart(p)
  /\ Step(p, Task("import", "exists", 0, u, "importFromMangadex"), <<>>)
  /\ UNCHANGED <<store, entityCache>>

\* findUnique of importFromMangadex is answered: a row with the mangadexId
\* is an error, otherwise getMangadexById is called
ExistsAnswered(p) ==
  /\ UNCHANGED <<catRest, now>>
  /\ proc[p].stage = "exists"
  /\ LET rec == proc[p] IN
     Step(p, IF FindUniqueByMangadexId(rec.u)
             THEN Throw(rec, AppError("This Korean manhwa is already in the database",
                                      400, "bad_input"))
             ELSE [rec EXCEPT !.stage = "fetch"], <<>>)
  /\ UNCHANGED <<store, entityCache>>

\* prisma.manhwa.create of createManhwa or importFromMangadex is executed:
\* the row is inserted and returned, unless its mangadexId is taken
InsertCommitted(p) ==
  /\ UNCHANGED <<catRest, now>>
  /\ proc[p].stage = "insert"
  /\ LET rec == proc[p]
         row == IF rec.op = "create" THEN CreatedRow
                ELSE ImportedRow(TransformMangadexData(rec.manga))
     IN IF UniqueViolation(row.mangadexId)
        THEN /\ Step(p, Throw(rec, UniqueConstraintFailed), <<>>)
             /\ UNCHANGED <<store, entityCache>>
        ELSE /\ NextId \in RowIds
             /\ store' = [store EXCEPT ![NextId] = row]
             /\ entityCache' = IF rec.op = "create" THEN InvalidatePattern(SearchPattern)
                               ELSE entityCache
             /\ Step(p, Finish([rec EXCEPT !.id = NextId], Value(row, FALSE, 0)), <<>>)

MaxOver(S) == IF S = {} THEN 0 ELSE CHOOSE x \in S : \A y \in S : y <= x

\* what getManhwaByIds returns: the entities found, and the longest time one
\* of them had been cached for
Entities(found, age) == [ok |-> TRUE, kind |-> "entities", found |-> found, age |-> age]

\* getManhwaByIds(ids), to its request: the entities in the cache are
\* collected, the others are asked for in one findMany
GetManhwaByIds(p, ids) ==
  /\ UNCHANGED <<catRest, now>>
  /\ MayStart(p)
  /\ LET hits == {id \in ids : GetEntityCache(id).present}
         rec == [Task("bulk", "findMany", 0, "null", "getManhwaByIds") EXCEPT
                   !.ids = ids \ hits,
                   !.result = Entities(hits, MaxOver({now - entityCache[id].at : id \in hits}))]
     IN Step(p, IF ids \ hits = {} THEN Finish(rec, rec.result) ELSE rec, <<>>)
  /\ UNCHANGED <<store, entityCache>>

\* findMany of getManhwaByIds is answered: each entity is cached
FindManyAnswered(p) ==
  /\ UNCHANGED <<catRest, now>>
  /\ proc[p].stage = "findMany"
  /\ LET rec == proc[p]
         entities == {id \in rec.ids : store[id].present}
     IN /\ entityCache' =
             [id \in RowIds |->
                IF id \in entities THEN SetEntityCache(entityCache, id, store[id], NoTtl)[id]
                ELSE entityCache[id]]
        /\ Step(p, Finish(rec, Entities(rec.result.found \union entities, rec.result.age)), <<>>)
  /\ UNCHANGED store

\* the cron tick or POST /manhwa/sync/all: queueOutdatedManhwa selects the
\* row, processQueue takes it off the queue and calls syncFromMangadex
QueueOutdatedSync(id) ==
  /\ UNCHANGED <<catRest, now>>
  /\ store[id].present /\ IsOutdated(store[id])
  /\ IdleBackground # {}
  /\ proc' = Place(proc, <<SyncTask("processQueue", id, store[id].mangadexId)>>)
  /\ UNCHANGED <<store, entityCache>>

CatTickSteps == {RefreshAge + 1}

\* the time the clock runs to
CatHorizon == RefreshAge + 1

\* d seconds pass, while that makes a difference: an entity is cached that
\* has not outlived the ttl, or a row is synced that is not due for a refresh
CatTick(d) ==
  /\ UNCHANGED catRest
  /\ \/ \E id \in RowIds : entityCache[id].present /\ now - entityCache[id].at <= EntityTTL
     \/ \E id \in RowIds : /\ store[id].present /\ store[id].lastSyncedAt.present
                           /\ now - store[id].lastSyncedAt.at <= RefreshAge
  /\ now + d <= CatHorizon
  /\ now' = now + d
  /\ UNCHANGED <<store, proc, entityCache>>

----------------------------------------------------------------------------
(* the environment of the search path *)

TickSteps == {150}

Tick(d) ==
  /\ UNCHANGED searchRest
  /\ NoMicrotask
  /\ now + d <= MaxClock
  /\ now' = now + d
  /\ UNCHANGED searchVars

\* the live entries other requests hold in searchCache when a response is stored
OtherKeys == {0, SearchMaxKeys}

\* the search path before any search for the params K, with S the keys of
\* the search cache in the model
NoSearch(K, S) ==
  /\ searchCache = [k \in S |-> NoEntry]
  /\ pending = [k \in K |-> 0]
  /\ prom = [p \in PromSlots |-> Free]
  /\ lastDone = [k \in K |-> [done |-> FALSE]]
  /\ pc = [c \in Callers |-> "idle"]
  /\ ckey = [c \in Callers |-> "none"]
  /\ cprom = [c \in Callers |-> 0]
  /\ cres = [c \in Callers |-> NoOutcome]
  /\ storeQueries = [k \in K |-> 0]
  /\ sinceStored = [k \in S |-> "none"]
  /\ writer = Idle

Fresh(K, S) == entityCache = [id \in ManhwaIds |-> NoEntry] /\ NoSearch(K, S)

AllCurrent == [id \in ManhwaIds |-> "CURRENT"]

\* no function under study
NoFn == fnIn = <<>> /\ fnOut = [applied |-> FALSE]

\* no catalogue operation under study
NoCat == store = <<>> /\ proc = <<>>

\* everything but the function's arguments, as after start-up
Started == now = 0 /\ Fresh({}, {}) /\ SyncFresh(AllCurrent) /\ UpFresh

SearchInit ==
  /\ now = 0
  /\ \E k \in SearchParams : Fresh({k}, {k})
  /\ SyncFresh(AllCurrent) /\ UpFresh /\ NoFn /\ NoCat

SearchNext ==
  \/ \E c \in Callers, k \in DOMAIN searchCache : searchManhwa(c, k)
  \/ \E p \in PromIds, ok \in BOOLEAN, empty \in BOOLEAN, others \in OtherKeys :
       StoreQueryResult(p, ok, empty, others)
  \/ \E p \in PromIds, extOk \in BOOLEAN, others \in OtherKeys : ExternalDone(p, extOk, others)
  \/ \E p \in PromIds : FinallyDeregister(p)
  \/ CreateInsert
  \/ CreateReturn
  \/ \E id \in ManhwaIds : SyncUpdate(id)
  \/ SyncReturn
  \/ \E d \in TickSteps : Tick(d)

SpecSearch == SearchInit /\ [][SearchNext]_vars

----------------------------------------------------------------------------
(* RequestCoalescer on its own: any callers, any keys, any producer *)

\* a caller calls coalesce(key, fn)
coalesce(c, k) ==
  /\ UNCHANGED searchRest
  /\ NoMicrotask
  /\ pc[c] \in {"idle", "done"}
  /\ ckey' = [ckey EXCEPT ![c] = k]
  /\ pc' = [pc EXCEPT ![c] = "waiting"]
  /\ cres' = [cres EXCEPT ![c] = NoOutcome]
  /\ Coalesce(c, k)
  /\ UNCHANGED <<now, searchCache, entityCache, lastDone, sinceStored, writer>>

\* the promise fn() returned settles: fulfilled with a value, or rejected
ProducerSettles(p, ok) ==
  /\ UNCHANGED searchRest
  /\ NoMicrotask
  /\ prom[p].state = "running"
  /\ FnSettles(p, [ok |-> ok, kind |-> IF ok THEN "value" ELSE "error", no |-> prom[p].no],
               FALSE)
  /\ UNCHANGED <<now, searchCache, entityCache, pending, pc, ckey, cprom, cres,
                 storeQueries, sinceStored, writer>>

CoalesceInit ==
  now = 0 /\ Fresh(CoalesceKeys, {}) /\ SyncFresh(AllCurrent) /\ UpFresh /\ NoFn /\ NoCat

CoalesceNext ==
  \/ \E c \in Callers, k \in CoalesceKeys : coalesce(c, k)
  \/ \E p \in PromIds, ok \in BOOLEAN : ProducerSettles(p, ok)
  \/ \E p \in PromIds : FinallyDeregister(p)

SpecCoalesce == CoalesceInit /\ [][CoalesceNext]_vars

\* clearAll(): this.pending.clear(); the producers under way go on, and the
\* callers awaiting them keep their promises
clearAll ==
  /\ UNCHANGED searchRest
  /\ NoMicrotask
  /\ pending' = [k \in DOMAIN pending |-> 0]
  /\ UNCHANGED <<now, searchCache, entityCache, prom, lastDone, pc, ckey, cprom, cres,
                 storeQueries, sinceStored, writer>>

ResetNext ==
  \/ \E c \in Callers, k \in CoalesceKeys : coalesce(c, k)
  \/ \E p \in PromIds, ok \in BOOLEAN : ProducerSettles(p, ok)
  \/ \E p \in PromIds : FinallyDeregister(p)
  \/ clearAll

SpecReset == CoalesceInit /\ [][ResetNext]_vars

----------------------------------------------------------------------------
(* ManhwaSyncJob with its triggers: syncNow, the cron tick, the retry timer *)

SyncInit == Started /\ NoFn /\ NoCat

SyncNext ==
  \/ \E id \in ManhwaIds : SyncNow(id)
  \/ \E rows \in Outdated : QueueOutdatedManhwa(rows)
  \/ TimerFires
  \/ \E f \in inflight, outcome \in SyncOutcomes : SyncFromMangadex(f, outcome)

SpecSync == SyncInit /\ [][SyncNext]_vars

\* The job as the queue sees it: an item whose sync fails is handled by the
\* catch of processQueue in the same way whether or not the row was marked
\* FAILED, so the failures are those that marked it.
SyncLiveNext ==
  \/ \E id \in ManhwaIds : SyncNow(id)
  \/ \E rows \in Outdated : QueueOutdatedManhwa(rows)
  \/ TimerFires
  \/ \E f \in inflight, outcome \in {"updated", "marked"} : SyncFromMangadex(f, outcome)

\* The event loop runs a timer that is due, and every syncFromMangadex of a
\* batch settles: its requests to Mangadex and to the Store are answered or
\* fail.
SpecSyncLive ==
  /\ SyncInit /\ [][SyncLiveNext]_vars
  /\ WF_vars(TimerFires)
  /\ WF_vars(\E f \in inflight, outcome \in {"updated", "marked"} : SyncFromMangadex(f, outcome))

\* getManhwaById(id) on the miss path, the row found in the Store: the row is
\* stored under the entity key (setEntityCache(cacheKey, parsed))
EntityCached(id) ==
  /\ UNCHANGED syncRest
  /\ ~GetEntityCache(id).present
  /\ entityCache' = SetEntityCache(entityCache, id,
                                    [id |-> id, syncStatus |-> syncStatus[id]], NoTtl)
  /\ UNCHANGED <<queue, isProcessing, inflight, timers, syncStatus, nextUid, hist>>

\* the sync job beside the reads that fill the entity cache
InvalidateNext ==
  \/ \E id \in ManhwaIds : SyncNow(id)
  \/ TimerFires
  \/ \E f \in inflight, outcome \in SyncOutcomes : SyncFromMangadex(f, outcome)
  \/ \E id \in ManhwaIds : EntityCached(id)

SpecInvalidate == SyncInit /\ [][InvalidateNext]_vars

----------------------------------------------------------------------------
(* routes/v1/admin: the sync routes of the admin router *)

adminRest == <<now, searchCache, pending, prom, lastDone, pc, ckey, cprom, cres,
               storeQueries, sinceStored, writer, upVars, catVars>>

\* router.get(...), router.post(...), in the order they are registered; a
\* path is the sequence of its segments
Routes ==
  <<[method |-> "GET", path |-> <<<<"manhwa">>, <<"sync">>, <<"status">>>>,
     handler |-> "GET /manhwa/sync/status"],
    [method |-> "POST", path |-> <<<<"manhwa">>, <<"sync">>, <<":id">>>>,
     handler |-> "POST /manhwa/sync/:id"],
    [method |-> "POST", path |-> <<<<"manhwa">>, <<"sync">>, <<"all">>>>,
     handler |-> "POST /manhwa/sync/all"]>>

\* a segment of a route's path that is a parameter
IsParam(segment) == segment = <<":id">>

\* express: the route matches the request
Matches(route, method, path) ==
  /\ route.method = method
  /\ Len(route.path) = Len(path)
  /\ \A i \in 1..Len(path) : IsParam(route.path[i]) \/ route.path[i] = path[i]

\* express: the first route registered that matches handles the request (a
\* handler that calls next(error) hands over to the error handler, not to
\* the routes behind it); 0: none
Dispatch(method, path) ==
  IF \E i \in 1..Len(Routes) : Matches(Routes[i], method, path)
  THEN CHOOSE i \in 1..Len(Routes) :
         /\ Matches(Routes[i], method, path)
         /\ \A j \in 1..(i - 1) : ~Matches(Routes[j], method, path)
  ELSE 0

NaN == [nan |-> TRUE]

IsDigit(t) == \E d \in 0..9 : Digit(d) = t

RECURSIVE DecimalValue(_)
DecimalValue(ds) ==
  IF ds = <<>> THEN 0
  ELSE 10 * DecimalValue(SubSeq(ds, 1, Len(ds) - 1))
       + (CHOOSE d \in 0..9 : Digit(d) = ds[Len(ds)])

\* parseInt(string, 10): the digits the string begins with, or NaN
ParseInt(string) ==
  LET n == Cardinality({i \in 1..Len(string) : \A j \in 1..i : IsDigit(string[j])})
  IN IF n = 0 THEN NaN ELSE [nan |-> FALSE, n |-> DecimalValue(SubSeq(string, 1, n))]

\* res.json(body), or the error handler's response to next(error)
Response(handler, status, message) ==
  [applied |-> TRUE, handler |-> handler, status |-> status, message |-> message]

\* the last segment of the paths requested
Segments == {<<"status">>, <<"all">>} \union {Digits(id) : id \in ManhwaIds}

\* An admin's request for /manhwa/sync/<segment> is handled.  The rows of
\* ManhwaIds are rows of Mangadex: getManhwaById finds them.
AdminRequest(method, segment) ==
  /\ UNCHANGED adminRest
  /\ LET path == <<<<"manhwa">>, <<"sync">>, segment>>
         route == Dispatch(method, path)
         handler == IF route = 0 THEN "none" ELSE Routes[route].handler
         id == ParseInt(path[3])
     IN /\ fnIn' = [method |-> method, path |-> path]
        /\ IF handler = "POST /manhwa/sync/:id" /\ ~id.nan
           THEN /\ UidAfter(queue, id.n, nextUid) <= MaxItems + 1
                /\ nextUid' = UidAfter(queue, id.n, nextUid)
                /\ ProcessQueue(AddToQueue(queue, id.n, 0, nextUid))
                /\ fnOut' = Response(handler, 200, "Sync queued with high priority")
           ELSE IF handler = "POST /manhwa/sync/all"
           THEN /\ \E rows \in Outdated :
                     LET added == AddRows(queue, rows, nextUid) IN
                       /\ added.uid <= MaxItems + 1
                       /\ nextUid' = added.uid
                       /\ ProcessQueue(added.queue)
                /\ fnOut' = Response(handler, 200, "Full sync initiated")
           ELSE /\ UNCHANGED <<queue, isProcessing, inflight, hist, nextUid>>
                /\ fnOut' = IF handler = "none" THEN Response(handler, 404, "Not Found")
                            ELSE IF handler = "GET /manhwa/sync/status"
                            THEN Response(handler, 200, "status")
                            ELSE Response(handler, 400, "Invalid ID")
  /\ UNCHANGED <<entityCache, timers, syncStatus>>

AdminNext ==
  \/ \E method \in {"GET", "POST"}, segment \in Segments : AdminRequest(method, segment)
  \/ TimerFires
  \/ \E f \in inflight, outcome \in SyncOutcomes : SyncFromMangadex(f, outcome)

SpecAdmin == SyncInit /\ [][AdminNext]_vars

----------------------------------------------------------------------------
(* The Mangadex client with its callers *)

Pages == {1, 101}
Limits == {100}

UpstreamInit == Started /\ NoFn /\ NoCat

UpstreamNext ==
  \/ \E c \in Callers, page \in Pages, limit \in Limits : SearchMangadexWithMapping(c, page, limit)
  \/ \E c \in Callers : GetMangadexById(c)
  \/ \E c \in Callers, resp \in Responses : Responds(c, resp)
  \/ \E c \in Callers, ok \in BOOLEAN : LoginAnswered(c, ok)
  \/ \E d \in UpTickSteps : UpTick(d)

SpecUpstream == UpstreamInit /\ [][UpstreamNext]_vars

----------------------------------------------------------------------------
(* The catalogue operations with their callers *)

\* a Store that holds nothing, a row made by createManhwa, or a row made by
\* importFromMangadex at time 0
Seeds == {NoRow, CreatedRow,
          [present |-> TRUE, mangadexId |-> "U1", dataSource |-> "MANGADX",
           content |-> Content("Mangadex", 0), lastSyncedAt |-> Date(0),
           syncStatus |-> "CURRENT", version |-> 1]}

CatInit ==
  /\ now = 0
  /\ entityCache = [id \in RowIds |-> NoEntry]
  /\ NoSearch({}, {}) /\ SyncFresh(AllCurrent) /\ UpFresh /\ NoFn
  /\ \E seed \in Seeds : store = [id \in RowIds |-> IF id = 1 THEN seed ELSE NoRow]
  /\ proc = [p \in Procs |-> NoProc]

CatNext ==
  \/ \E p \in Clients, id \in IdsAsked, f \in BOOLEAN, op \in GetOps : GetManhwaById(p, id, f, op)
  \/ \E p \in Clients : FindAnswered(p)
  \/ \E p \in Procs : FetchAnswered(p)
  \/ \E p \in Clients : ImportFetchFails(p)
  \/ \E p \in Procs : UpdateCommitted(p)
  \/ \E p \in Procs, marked \in BOOLEAN : SyncFails(p, marked)
  \/ \E p \in Clients : RefetchAnswered(p)
  \/ \E p \in Clients, g \in GenreLists : CreateManhwa(p, g)
  \/ \E p \in Clients : GenresAnswered(p)
  \/ \E p \in Clients, u \in Upstreams : ImportFromMangadex(p, u)
  \/ \E p \in Clients : ExistsAnswered(p)
  \/ \E p \in Clients : InsertCommitted(p)
  \/ \E p \in Clients : GetManhwaByIds(p, RowIds)
  \/ \E p \in Clients : FindManyAnswered(p)
  \/ \E id \in RowIds : QueueOutdatedSync(id)
  \/ \E d \in CatTickSteps : CatTick(d)

SpecCatalogue == CatInit /\ [][CatNext]_vars

\* the reads of one row with the syncs they start: getManhwaById from its
\* three callers, syncFromMangadex, refreshInBackground
ReadNext ==
  \/ \E p \in Clients, id \in IdsAsked, f \in BOOLEAN, op \in GetOps : GetManhwaById(p, id, f, op)
  \/ \E p \in Clients : FindAnswered(p)
  \/ \E p \in Procs : FetchAnswered(p)
  \/ \E p \in Procs : UpdateCommitted(p)
  \/ \E p \in Procs, marked \in BOOLEAN : SyncFails(p, marked)
  \/ \E p \in Clients : RefetchAnswered(p)
  \/ \E d \in CatTickSteps : CatTick(d)

\* the refreshes in the background that two reads can start
Refreshers == {2 + b : b \in 1..Cardinality(Clients)}

\* A row made at time 0 by createManhwa or importFromMangadex, which a
\* getManhwaById may have read and cached since; no operation is under way.
RefreshInit ==
  /\ now = 0
  /\ NoSearch({}, {}) /\ SyncFresh(AllCurrent) /\ UpFresh /\ NoFn
  /\ \E seed \in Seeds, cached \in BOOLEAN :
       /\ seed.present
       /\ store = [id \in RowIds |-> IF id = 1 THEN seed ELSE NoRow]
       /\ entityCache = IF cached
                        THEN SetEntityCache([id \in RowIds |-> NoEntry], 1, seed, NoTtl)
                        ELSE [id \in RowIds |-> NoEntry]
  /\ proc = [p \in Clients \union Refreshers |-> NoProc]

\* the reads of the row, with the syncs they start
RefreshNext ==
  \/ \E p \in Clients, id \in IdsAsked, f \in BOOLEAN, op \in GetOps : GetManhwaById(p, id, f, op)
  \/ \E p \in Clients : FindAnswered(p)
  \/ \E p \in Clients \union Refreshers : FetchAnswered(p)
  \/ \E p \in Clients \union Refreshers : UpdateCommitted(p)
  \/ \E p \in Clients \union Refreshers, marked \in BOOLEAN : SyncFails(p, marked)
  \/ \E p \in Clients : RefetchAnswered(p)
  \/ \E d \in CatTickSteps : CatTick(d)

SpecRefresh == RefreshInit /\ [][RefreshNext]_vars

\* The Store executes the update of a syncFromMangadex in the background
\* and the event loop runs what awaits it.
SpecCatalogueLive ==
  CatInit /\ [][ReadNext]_vars /\ \A b \in Background : WF_vars(UpdateCommitted(b))

----------------------------------------------------------------------------
(* cache.ts: generateSearchCacheKey *)

\* An object is the sequence of its fields in insertion order; a field is a
\* key with an atom or with an object.
Atom(k, a) == [key |-> k, atom |-> TRUE, val |-> a]
Obj(k, o) == [key |-> k, atom |-> FALSE, val |-> o]

\* the order of the keys under Array.prototype.sort()
KeyRank ==
  [end |-> 1, filters |-> 2, includeExternal |-> 3, limit |-> 4, page |-> 5,
   pagination |-> 6, query |-> 7, start |-> 8, status |-> 9, yearRange |-> 10]

RECURSIVE InsertByKey(_, _)
InsertByKey(o, f) ==
  IF o = <<>> THEN <<f>>
  ELSE IF KeyRank[o[Len(o)].key] <= KeyRank[f.key] THEN Append(o, f)
  ELSE Append(InsertByKey(SubSeq(o, 1, Len(o) - 1), f), o[Len(o)])

\* Object.keys(params).sort().reduce(...): the fields of params, by key;
\* the values are carried over as they are
RECURSIVE SortedByKey(_)
SortedByKey(o) ==
  IF o = <<>> THEN <<>>
  ELSE InsertByKey(SortedByKey(SubSeq(o, 1, Len(o) - 1)), o[Len(o)])

\* JSON.stringify(o): the fields in insertion order, at every level
RECURSIVE Stringify(_)
Stringify(o) ==
  LET RECURSIVE Fields(_)
      Fields(i) ==
        IF i > Len(o) THEN <<>>
        ELSE (IF i > 1 THEN <<",">> ELSE <<>>)
             \o <<o[i].key, ":">>
             \o (IF o[i].atom THEN <<o[i].val>> ELSE Stringify(o[i].val))
             \o Fields(i + 1)
  IN <<"{">> \o Fields(1) \o <<"}">>

GenerateSearchCacheKey(params) == <<"search:">> \o Stringify(SortedByKey(params))

\* the orders in which the fields of o can appear
Orders(o) ==
  {[i \in 1..Len(o) |-> o[f[i]]] :
     f \in {g \in [1..Len(o) -> 1..Len(o)] : \A i, j \in 1..Len(o) : i # j => g[i] # g[j]}}

\* the search requests with the field values of the model, in every order
\* of the fields of the request and of filters, yearRange and pagination
Requests(query) ==
  UNION {UNION {UNION {
    Orders(<<Atom("query", query), Obj("filters", fl), Obj("pagination", pg),
             Atom("includeExternal", "false")>>) :
      fl \in Orders(<<Atom("status", "[ongoing]"), Obj("yearRange", yr)>>)} :
      yr \in Orders(<<Atom("start", "2020"), Atom("end", "2021")>>)} :
      pg \in Orders(<<Atom("page", "1"), Atom("limit", "20")>>)}

Queries == {"a", "b"}

\* generateSearchCacheKey is applied to both requests
ApplyKey ==
  /\ UNCHANGED fnRest
  /\ ~fnOut.applied
  /\ fnOut' = [applied |-> TRUE,
               keys |-> <<GenerateSearchCacheKey(fnIn[1]), GenerateSearchCacheKey(fnIn[2])>>]
  /\ UNCHANGED <<entityCache, fnIn>>

\* the request of the controller, and a request equal to it field by field
KeyInit ==
  /\ Started
  /\ \E q \in Queries : \E P \in Orders(CHOOSE r \in Requests(q) : TRUE) :
       \E Q \in Requests(q) : fnIn = <<P, Q>>
  /\ fnOut = [applied |-> FALSE]
  /\ NoCat

KeyNext == ApplyKey

SpecKey == KeyInit /\ [][KeyNext]_vars

----------------------------------------------------------------------------
(* manhwaSearchService.ts: the year-range filter of searchManhwaFullText *)

Years == 2019..2022

NoYear == [present |-> FALSE]
Year(y) == [present |-> TRUE, year |-> y]

\* buildSearchWhere(params), its yearRange condition on a row: startYear in
\* [start, end], or startYear <= start and (endYear >= start or endYear null)
BuildSearchWhere(row, range) ==
  \/ row.startYear >= range.start /\ row.startYear <= range.end
  \/ /\ row.startYear <= range.start
     /\ \/ row.endYear.present /\ row.endYear.year >= range.start
        \/ ~row.endYear.present

\* Whether searchManhwaFullText returns (and counts) a row that matches the
\* query and the status and genre filters.  The raw SQL of the full-text path
\* carries the status and genre conditions only; the empty-query path uses
\* buildSearchWhere.
SearchManhwaFullText(path, row, range) ==
  IF path = "fulltext" THEN TRUE ELSE BuildSearchWhere(row, range)

\* searchManhwaFullText is applied
ApplyYearFilter ==
  /\ UNCHANGED fnRest
  /\ ~fnOut.applied
  /\ fnOut' = [applied |-> TRUE,
               included |-> SearchManhwaFullText(fnIn.path, fnIn.row, fnIn.range)]
  /\ UNCHANGED <<entityCache, fnIn>>

\* a row with startYear <= endYear or no endYear, a validated yearRange
\* (start <= end), and a query that is empty or not
YearInit ==
  /\ Started
  /\ \E path \in {"fulltext", "filter"}, s \in Years, rs \in Years, re \in Years :
       \E e \in {NoYear} \union {Year(y) : y \in {z \in Years : z >= s}} :
         /\ rs <= re
         /\ fnIn = [path |-> path, row |-> [startYear |-> s, endYear |-> e],
                    range |-> [start |-> rs, end |-> re]]
  /\ fnOut = [applied |-> FALSE]
  /\ NoCat

YearNext == ApplyYearFilter

SpecYear == YearInit /\ [][YearNext]_vars

----------------------------------------------------------------------------
(* upload.ts: the rows queueOutdatedManhwa selects *)

Take == 100        \* findMany: take

\* CREATE TYPE manhco."SyncStatus" AS ENUM (...): PostgreSQL compares the
\* values of an enum by their place in the declaration
SyncStatusEnum == <<"CURRENT", "OUTDATED", "FAILED">>

EnumRank(s) == CHOOSE i \in 1..Len(SyncStatusEnum) : SyncStatusEnum[i] = s

\* the time of the selection
SelectNow == RefreshAge + 2

\* The rows of the Store by syncStatus and lastSyncedAt: never synced, synced
\* more than 24 hours ago, synced just now.  All are rows of Mangadex.
RowKinds ==
  [syncStatus : {"CURRENT", "OUTDATED", "FAILED"},
   lastSyncedAt : {NoDate, Date(0), Date(SelectNow)}]

RowOf(k) ==
  [present |-> TRUE, dataSource |-> "MANGADX", mangadexId |-> "U1",
   syncStatus |-> k.syncStatus, lastSyncedAt |-> k.lastSyncedAt]


\* orderBy: [{syncStatus: 'asc'}, {lastSyncedAt: 'asc'}]: a row of kind a
\* comes before a row of kind b.  In ascending order PostgreSQL puts NULL last.
OrderBy(a, b) ==
  IF a.syncStatus # b.syncStatus THEN EnumRank(a.syncStatus) < EnumRank(b.syncStatus)
  ELSE IF ~a.lastSyncedAt.present THEN FALSE
  ELSE IF ~b.lastSyncedAt.present THEN TRUE
  ELSE a.lastSyncedAt.at < b.lastSyncedAt.at

\* the findMany of queueOutdatedManhwa over a Store that holds rows[k] rows
\* of kind k: how many rows of each kind are among the first `take` of the
\* rows that match the where clause, in the order of orderBy
FindManyOutdated(rows) ==
  LET found == {k \in DOMAIN rows : IsOutdated(RowOf(k))}
      ahead(k) == SumOver(rows, {j \in found : OrderBy(j, k)})
  IN [k \in DOMAIN rows |->
        IF k \in found /\ ahead(k) < Take THEN MinOf(rows[k], Take - ahead(k)) ELSE 0]

\* manhwa.syncStatus === 'FAILED' ? 0 : 1
OutdatedPriority(manhwa) == IF manhwa.syncStatus = "FAILED" THEN 0 ELSE 1

\* queueOutdatedManhwa: the rows selected and the priority each is queued with
ApplyQueueOutdated ==
  /\ UNCHANGED fnRest
  /\ ~fnOut.applied
  /\ fnOut' = [applied |-> TRUE,
               selected |-> FindManyOutdated(fnIn),
               priority |-> [k \in RowKinds |-> OutdatedPriority(RowOf(k))]]
  /\ UNCHANGED <<entityCache, fnIn>>

\* a Store with no, one or a hundred rows of each kind
OutdatedInit ==
  /\ now = SelectNow
  /\ Fresh({}, {}) /\ SyncFresh(AllCurrent) /\ UpFresh /\ NoCat
  /\ fnIn \in [RowKinds -> {0, 1, Take}]
  /\ fnOut = [applied |-> FALSE]

OutdatedNext == ApplyQueueOutdated

SpecOutdated == OutdatedInit /\ [][OutdatedNext]_vars

----------------------------------------------------------------------------
(* ManhwaSyncJob over the rate-limited client, Mangadex answering every request *)

DefaultBatchSize == 10   \* batchSize when SYNC_BATCH_SIZE is not set
TimerDelay == 2          \* setTimeout(..., 2000), in seconds

\* the rows of the Store, all of Mangadex and never synced: one more than the
\* limiter has points
DrainIds == 1..(RlPoints + 1)

drainRest == <<searchVars, loginLimiter, authToken, req, tagCache, sentNow, loginsSent,
               fnVars, catVars>>

\* rateLimiter.consume(1) in the request interceptor, once for each of the n
\* getMangadexById calls the batch starts in one turn: the limiter's record
\* afterwards, and which of the requests were let through
RECURSIVE ConsumeEach(_, _)
ConsumeEach(l, n) ==
  IF n = 0 THEN [rl |-> l, ok |-> <<>>]
  ELSE LET before == ConsumeEach(l, n - 1)
           c == Consume(before.rl)
       IN [rl |-> c.rl, ok |-> Append(before.ok, c.ok)]

\* processQueue() up to its await, with the batch size of the default
\* configuration: each item's syncFromMangadex calls getMangadexById, whose
\* request is sent if the limiter lets it through
DrainProcessQueue(q, l) ==
  IF Busy(q)
  THEN /\ queue' = q
       /\ rateLimiter' = l
       /\ UNCHANGED <<isProcessing, inflight, hist>>
  ELSE LET n == MinOf(DefaultBatchSize, Len(q))
           consumed == ConsumeEach(l, n)
           batch == {[q[i] EXCEPT !.sent = consumed.ok[i]] : i \in 1..n}
       IN /\ isProcessing' = TRUE
          /\ queue' = SubSeq(q, n + 1, Len(q))
          /\ inflight' = batch
          /\ rateLimiter' = consumed.rl
          /\ hist' = [u \in DOMAIN hist |->
                        IF \E it \in batch : it.uid = u
                        THEN [hist[u] EXCEPT !.attempts = @ + 1]
                        ELSE hist[u]]

\* the rows, in the order of their ids, as entries of the queue
RECURSIVE AddOutdated(_, _)
AddOutdated(q, ids) ==
  IF ids = {} THEN q
  ELSE LET id == CHOOSE x \in ids : \A y \in ids : x <= y
       IN AddOutdated(IF \E i \in 1..Len(q) : q[i].id = id THEN q
                      ELSE SortByPriority(Append(q, [uid |-> id, id |-> id, priority |-> 1,
                                                     retries |-> 0, sent |-> FALSE])),
                      ids \ {id})

\* the cron tick: queueOutdatedManhwa finds the rows `ids` outdated and
\* queues them with priority 1, then processQueue()
DrainCronTick(ids) ==
  /\ UNCHANGED drainRest
  /\ nextUid = 1
  /\ nextUid' = nextUid + Cardinality(ids)
  /\ DrainProcessQueue(AddOutdated(queue, ids), rateLimiter)
  /\ UNCHANGED <<now, entityCache, timers, syncStatus>>

\* the limiter's record d seconds later
Later(l, d) == [l EXCEPT !.left = IF @ > d THEN @ - d ELSE 0]

\* the timer set after a batch fires, 2 s after it was set
DrainTimerFires ==
  /\ UNCHANGED drainRest
  /\ timers > 0
  /\ timers' = timers - 1
  /\ DrainProcessQueue(queue, Later(rateLimiter, TimerDelay))
  /\ UNCHANGED <<now, entityCache, syncStatus, nextUid>>

\* syncFromMangadex of a batch item settles.  A request that was sent is
\* answered by Mangadex and the update of the row commits; a request the
\* limiter rejected throws RateLimitExceeded, the catch marks the row FAILED
\* and the item's handler re-queues or drops it.
DrainSettles(f) ==
  /\ UNCHANGED drainRest
  /\ f \in inflight
  /\ IF f.sent
     THEN /\ syncStatus' = [syncStatus EXCEPT ![f.id] = "CURRENT"]
          /\ ItemSucceeds(f)
     ELSE /\ syncStatus' = [syncStatus EXCEPT ![f.id] = "FAILED"]
          /\ ItemFails(f, TRUE)
  /\ UNCHANGED <<now, entityCache, rateLimiter, nextUid>>

\* time passes while requests are under way
DrainTick(d) ==
  /\ UNCHANGED drainRest
  /\ rateLimiter.left > 0 /\ inflight # {}
  /\ rateLimiter' = Later(rateLimiter, d)
  /\ UNCHANGED <<now, entityCache, syncVars>>

DrainInit ==
  /\ now = 0 /\ Fresh({}, {}) /\ UpFresh /\ NoFn /\ NoCat
  /\ queue = <<>> /\ isProcessing = FALSE /\ inflight = {} /\ timers = 0
  /\ syncStatus = [id \in DrainIds |-> "CURRENT"]
  /\ nextUid = 1
  /\ hist = [u \in DrainIds |-> NoHist]

DrainNext ==
  \/ \E ids \in SUBSET DrainIds : ids # {} /\ DrainCronTick(ids)
  \/ DrainTimerFires
  \/ \E f \in inflight : DrainSettles(f)
  \/ \E d \in UpTickSteps : DrainTick(d)

\* timers that are due fire, and every syncFromMangadex settles
SpecDrain ==
  /\ DrainInit /\ [][DrainNext]_vars
  /\ WF_vars(DrainTimerFires)
  /\ WF_vars(\E f \in inflight : DrainSettles(f))

----------------------------------------------------------------------------
(* Properties of the coalescer and of the search cache *)

\* the callers awaiting the producer of key k
Waiting(k) == {c \in Callers : pc[c] = "waiting" /\ ckey[c] = k}

\* C1: the coalesce(key, fn) calls issued while an earlier call for the key
\* has not completed all await the one registered promise, whose producer is
\* the only one invoked for the key since the first of them, and when it
\* settles every one of them receives the same outcome: its value or its error.
C1_SingleFlight ==
  /\ [](\A c \in Callers : pc[c] = "waiting" =>
          /\ pending[ckey[c]] = cprom[c]
          /\ prom[cprom[c]].state # "free"
          /\ prom[cprom[c]].key = ckey[c]
          /\ prom[cprom[c]].no = storeQueries[ckey[c]])
  /\ [][\A c \in Callers : pc[c] = "waiting" /\ pc'[c] = "done" =>
          /\ cres'[c].kind \in {"value", "error"}
          /\ cres'[c].no = storeQueries[ckey[c]]
          /\ \A d \in Waiting(ckey[c]) : pc'[d] = "done" /\ cres'[d] = cres'[c]]_vars

\* two callers of one key have received the outcome of one producer invocation
C1_Witness ==
  \E c, d \in Callers :
    /\ c # d /\ pc[c] = "done" /\ pc[d] = "done" /\ ckey[c] = ckey[d]
    /\ cres[c].kind = "error" /\ cres[d] = cres[c]
    /\ storeQueries[ckey[c]] = cres[c].no

\* caller c issues a Search that is not answered from the cache
MissStep(c) == pc[c] # "waiting" /\ pc'[c] = "waiting"

\* C33: the key is deregistered on every exit path of the producer and not
\* before its outcome is there: whenever callers can run, isPending(key)
\* holds just of the keys whose producer has not completed (and
\* getPendingCount() counts those); the key is deleted in the step in which
\* the settled producer's waiters receive its outcome; a coalesce for a key
\* whose producer has completed, with a failure too, invokes its own
\* producer; and while a caller awaits a producer, that producer is the one
\* registered for the key.
C33_DeregisteredOnEveryExit ==
  /\ [](NoMicrotask => \A k \in DOMAIN pending : HasPending(k) <=> Executing(k) # {})
  /\ [](\A c \in Callers : pc[c] = "waiting" => pending[ckey[c]] = cprom[c])
  /\ [][\A k \in DOMAIN pending : HasPending(k) /\ ~HasPending(k)' =>
          /\ prom[pending[k]].state = "fnSettled"
          /\ \A c \in Waiting(k) : pc'[c] = "done" /\ cres'[c] = prom[pending[k]].outcome]_vars
  /\ [][\A c \in Callers : MissStep(c) /\ Executing(ckey'[c]) = {} =>
          /\ storeQueries'[ckey'[c]] = storeQueries[ckey'[c]] + 1
          /\ prom'[cprom'[c]].state = "running"
          /\ prom'[cprom'[c]].no = storeQueries'[ckey'[c]]]_vars

\* a caller awaits a producer invoked after the producer before it for the
\* key had failed
C33_Witness ==
  \E c \in Callers :
    /\ pc[c] = "waiting" /\ prom[cprom[c]].state = "running"
    /\ lastDone[ckey[c]].done /\ ~lastDone[ckey[c]].ok
    /\ storeQueries[ckey[c]] > 1

\* C2: a Search answered from the search cache never returns an entry stored
\* before a write operation (Create, SyncOne) that has returned by the time
\* of the Search.
C2_NoStaleSearch ==
  \A c \in Callers :
    pc[c] = "done" /\ cres[c].kind = "cached" => ~cres[c].stale

\* a producer for k completed with a response at most SearchTTL seconds ago
Completed(k) == lastDone[k].done /\ lastDone[k].ok /\ now < lastDone[k].at + SearchTTL

\* C3 as stated: identical concurrent Searches share one Store query and one
\* response, and no identical Search issued within the TTL of the completion
\* goes past the search cache.
C3_AsStated ==
  [][\A c \in Callers : ~(MissStep(c) /\ Completed(ckey'[c]))]_vars

\* C3: identical Searches issued while no cache entry exists await one
\* producer, the Store is queried once for them and they receive the same
\* response; if the search cache accepted that response (it held fewer than
\* maxKeys keys), an identical Search issued within the TTL of the completion
\* is answered from the cache and queries nothing.
C3_CoalescedThenCached ==
  /\ [](\A c \in Callers : pc[c] = "waiting" =>
          /\ pending[ckey[c]] = cprom[c]
          /\ prom[cprom[c]].no = storeQueries[ckey[c]])
  /\ [][\A c \in Callers :
          /\ pc[c] = "waiting" /\ pc'[c] = "done" =>
                \A d \in Waiting(ckey[c]) : pc'[d] = "done" /\ cres'[d] = cres'[c]
          /\ ~(MissStep(c) /\ Completed(ckey'[c]) /\ lastDone[ckey'[c]].cached)
          /\ pc[c] # "waiting" /\ pc'[c] = "done" /\ cres'[c] # cres[c] =>
                /\ cres'[c].kind = "cached"
                /\ storeQueries' = storeQueries
                /\ cres'[c].resp.no = storeQueries[ckey'[c]]]_vars

\* two callers shared one Store query, and a later identical Search was
\* answered from the cache with the response of that query
C3_Witness ==
  \E c \in Callers :
    /\ pc[c] = "done" /\ cres[c].kind = "cached"
    /\ lastDone[ckey[c]].shared
    /\ cres[c].resp.no = 1 /\ storeQueries[ckey[c]] = 1

\* C21: searchMangadexWithMapping is awaited only for a search with
\* includeExternal whose local response is empty; when it fails, searchManhwa
\* completes with the empty local response, its pagination as it was and
\* 'mangadex (failed)' appended to metadata.sourcesQueried.
C21_ExternalFailureDegrades ==
  /\ [](\A p \in PromSlots :
          prom[p].state = "external" =>
            /\ IncludeExternal(prom[p].key)
            /\ prom[p].outcome.empty /\ prom[p].outcome.sources = <<"local">>)
  /\ [][\A p \in PromSlots :
          prom[p].state = "external" /\ prom'[p] # prom[p] =>
            /\ prom'[p].state = "fnSettled"
            /\ prom'[p].outcome.ok
            /\ prom'[p].outcome.sources # <<"local", "mangadex">> =>
                  /\ prom'[p].outcome.empty
                  /\ prom'[p].outcome.pagination = prom[p].outcome.pagination
                  /\ prom'[p].outcome.sources = <<"local", "mangadex (failed)">>]_vars
  /\ [](\A c \in Callers :
          pc[c] = "done" /\ cres[c].kind = "response" =>
            (cres[c].sources # <<"local">> => IncludeExternal(ckey[c])))

\* a search with includeExternal was answered with the empty local response
\* marked with the failure of the external lookup
C21_Witness ==
  \E c \in Callers :
    /\ pc[c] = "done" /\ cres[c].kind = "response" /\ cres[c].ok
    /\ cres[c].empty /\ cres[c].pagination = "local"
    /\ cres[c].sources = <<"local", "mangadex (failed)">>

----------------------------------------------------------------------------
(* Properties of the sync queue *)

\* C4: every item placed in the sync queue is attempted (syncFromMangadex is
\* called for it) at most 4 times: once, and at most 3 retries.
C4_AtMostFourAttempts == \A u \in Uids : hist[u].attempts <= 4

\* an item has been attempted 4 times and was then given up
C4_Witness == \E u \in Uids : hist[u].attempts = 4 /\ hist[u].failedEvents = 1

\* the items in the queue or in the batch
Held(u) == (\E i \in 1..Len(queue) : queue[i].uid = u) \/ (\E f \in inflight : f.uid = u)

\* The step in which the attempt of batch item f fails, as the spec has it:
\* the first three failures re-queue the item with retries + 1 and priority
\* min(priority + 1, 10); the 4th drops it, emits sync:failed once and leaves
\* the row FAILED (when `always`, or else when the Store took that update).
FailureStep(f, always) ==
  LET u == f.uid IN
  f \notin inflight' /\ hist'[u].failures = hist[u].failures + 1 =>
    IF hist[u].failures < 3
    THEN /\ f.retries = hist[u].failures
         /\ queue' = Append(queue, [uid |-> u, id |-> f.id, retries |-> f.retries + 1,
                                    priority |-> MinOf(f.priority + 1, 10)])
         /\ queue'[Len(queue')].priority >= f.priority
         /\ hist'[u].requeues = hist[u].requeues + 1
         /\ hist'[u].failedEvents = 0
    ELSE /\ \A i \in 1..Len(queue') : queue'[i].uid # u
         /\ hist'[u].requeues = 3
         /\ hist'[u].failedEvents = 1
         /\ always \/ hist'[u].marked => syncStatus'[f.id] = "FAILED"

Priorities == {0, 1, 5}

\* id is in the queue
Queued(id) == \E i \in 1..Len(queue) : queue[i].id = id

\* C25: addToQueue with an id that is in the queue leaves the queue as it
\* is: its length, the priority and retries of the entry and the order of
\* the entries.
C25_EnqueuePresentIdKeepsQueue ==
  \A id \in ManhwaIds, priority \in Priorities :
    Queued(id) => AddToQueue(queue, id, priority, nextUid) = queue

\* the queue holds two entries, one of them re-queued after a failure with
\* another priority and retries than a new entry would get
C25_Witness ==
  /\ Len(queue) = 2
  /\ \E i \in 1..Len(queue) : queue[i].retries = 2 /\ queue[i].priority = 2

\* C28: the queue is at all times in ascending order of priority.
C28_QueueOrdered ==
  \A i, j \in 1..Len(queue) : i < j => queue[i].priority <= queue[j].priority

C27_InvalidatesOnlyItsKey ==
  [][\A f \in inflight : SyncFromMangadex(f, "updated") =>
        /\ ~entityCache'[f.id].present
        /\ \A j \in ManhwaIds \ {f.id} : entityCache'[j] = entityCache[j]]_vars

\* item u waits in the queue
InQueue(u) == \E i \in 1..Len(queue) : queue[i].uid = u

\* item u is in the batch being processed
InBatch(u) == \E f \in inflight : f.uid = u

\* C30: while items wait in the queue a batch is in flight or a timer is
\* set to call processQueue, and every item that waits in the queue, queued
\* or re-queued at whatever moment, comes to be taken into a batch.
C30_QueueDrains ==
  /\ [](queue # <<>> => isProcessing \/ timers > 0)
  /\ \A u \in Uids : InQueue(u) ~> InBatch(u)

\* an item that was re-queued while its batch was in flight has been taken
\* into a later batch
C30_Witness ==
  \E u \in Uids : InBatch(u) /\ hist[u].requeues = 1 /\ hist[u].attempts = 2

\* C31: after syncNow(id, mangadexId) the queue entry of id has priority 0,
\* whatever the queue held before, and so has the item of id in a batch the
\* call starts; and if no batch was in flight the call has started one.
C31_SyncNowGivesPriorityZero ==
  /\ [](\A id \in ManhwaIds :
          LET q == AddToQueue(queue, id, 0, nextUid)
          IN \E i \in 1..Len(q) : q[i].id = id /\ q[i].priority = 0)
  /\ [][\A id \in ManhwaIds : SyncNow(id) =>
          /\ isProcessing'
          /\ \A f \in inflight' \ inflight : f.id = id => f.priority = 0]_vars

\* C35: the job never handles an id twice at once: the queue holds no two
\* entries of one id, an id in the batch in flight is not in the queue as
\* well, and no two items of a batch are of one id.
C35_NoIdTwiceAtOnce ==
  /\ \A i, j \in 1..Len(queue) : i # j => queue[i].id # queue[j].id
  /\ \A f \in inflight : ~Queued(f.id)
  /\ \A f, g \in inflight : f # g => f.id # g.id

\* C34: an admin's POST /manhwa/sync/all is handled by the handler of the
\* full sync and never by the handler of /manhwa/sync/:id.
C34_SyncAllReachesFullSync ==
  /\ fnOut.applied
  /\ fnIn = [method |-> "POST", path |-> <<<<"manhwa">>, <<"sync">>, <<"all">>>>]
  => fnOut.handler = "POST /manhwa/sync/all"

\* C36: with Mangadex answering every request it receives, no item of the
\* queue is dropped with sync:failed, and every item that waits in the queue
\* comes to be synced: sync:success is emitted and the row is CURRENT.
C36_EveryItemSynced ==
  /\ [](\A u \in DOMAIN hist : hist[u].failedEvents = 0)
  /\ \A u \in DrainIds :
       InQueue(u) ~> (hist[u].successEvents > 0 /\ syncStatus[u] = "CURRENT")

----------------------------------------------------------------------------
(* Properties of the Mangadex client *)

\* C6: the client sends at most 5 HTTP requests to Mangadex within one second
\* (here: while the clock stands still), logins and 401 retries included.
C6_AtMostFivePerSecond == sentNow <= RlPoints

\* C7: every login request has first consumed a point of the 'login'
\* endpoint limiter, which admits at most 30 of them in its window.
C7_LoginLimiterConsulted == loginsSent <= loginLimiter /\ loginsSent <= LoginPoints

\* C8: an external search whose offset + limit exceeds 10000 has no request
\* sent to Mangadex on its behalf, and ends in PaginationLimitExceeded.
C8_NothingSentBeyondCeiling ==
  \A c \in Callers :
    req[c].stage # "idle" /\ req[c].op = "search" /\ Over(req[c]) =>
      /\ req[c].sends = 0
      /\ req[c].stage = "done" => req[c].result = "PaginationLimitExceeded"

----------------------------------------------------------------------------
(* Properties of the key derivation and of the year filter *)

\* the fields of o and their values, whatever their order
RECURSIVE Canonical(_)
Canonical(o) ==
  {[key |-> o[i].key,
    val |-> IF o[i].atom THEN <<o[i].val>> ELSE <<Canonical(o[i].val)>>] : i \in 1..Len(o)}

MaxOf(a, b) == IF a > b THEN a ELSE b

\* max(s, rs) <= min(e ?? +infinity, re)
Overlaps(row, range) ==
  /\ MaxOf(row.startYear, range.start) <= range.end
  /\ row.endYear.present => MaxOf(row.startYear, range.start) <= row.endYear.year

\* C10: with a yearRange filter, on the full-text path and on the empty-query
\* path, a row that passes the other filters is returned exactly if its
\* years overlap the range.
C10_YearRangeOverlap ==
  fnOut.applied => (fnOut.included <=> Overlaps(fnIn.row, fnIn.range))

\* C18: a request that got a 401, whatever the body of the response, made
\* the client log in exactly once and was resent at most once (once, if the
\* login succeeded and the limiter admitted it).
C18_OneLoginOneResend ==
  \A c \in Callers :
    req[c].stage = "done" /\ req[c].unauth >= 1 =>
      req[c].relogins = 1 /\ req[c].resends <= 1

\* C19: an operation whose resent request also got a 401 fails with the
\* error kind Unauthorised.
C19_SecondUnauthorisedSurfaces ==
  \A c \in Callers :
    req[c].stage = "done" /\ req[c].op = "byId" /\ req[c].resends = 1 /\ req[c].unauth = 2 =>
      req[c].result = "Unauthorised"

\* C20: at most one login request is outstanding at any time.
C20_OneLoginOutstanding ==
  Cardinality({c \in Callers : req[c].stage = "login"}) <= 1

----------------------------------------------------------------------------
(* Properties of the catalogue operations *)

\* an entity of Mangadex last synced more than 24 hours ago
Stale(entity) ==
  /\ entity.mangadexId # "null"
  /\ entity.lastSyncedAt.present
  /\ now - entity.lastSyncedAt.at > RefreshAge

Syncing == {"fetch", "update", "refetch"}

StaleHit(p, id) ==
  /\ proc[p].stage = "idle" /\ proc'[p].stage # "idle"
  /\ proc'[p].op = "get" /\ proc'[p].id = id /\ ~proc'[p].force
  /\ GetEntityCache(id).present /\ Stale(GetEntityCache(id).val)

\* b is a refresh in the background for id whose fetch has succeeded
Refreshing(b, id) ==
  /\ proc[b].stage = "update" /\ proc[b].op = "refreshInBackground" /\ proc[b].id = id

Raised(p, err) == proc[p].stage = "done" /\ proc[p].raised = err

\* C12: the NotFound of getManhwaById and the BadInput of createManhwa reach
\* the caller as they were raised, with status 404 and appCode
\* manhwa_not_found, status 400 and appCode bad_input; and the rejected
\* createManhwa has inserted no row.
C12_ErrorsReachCallerUnchanged ==
  \A p \in Clients :
    /\ Raised(p, AppError("Manhwa not found", 404, "manhwa_not_found")) =>
          /\ proc[p].result.status = 404
          /\ proc[p].result.appCode = "manhwa_not_found"
    /\ Raised(p, AppError("Invalid genres", 400, "bad_input")) =>
          /\ proc[p].result.status = 400
          /\ proc[p].result.appCode = "bad_input"
          /\ proc[p].id \notin RowIds

\* C13: an importFromMangadex that finds a row with its mangadexId, the
\* import of that mangadexId having succeeded, fails with status 400 and
\* appCode bad_input, a message that contains "already", no request to
\* Mangadex and no row inserted.
C13_LaterImportIsBadInput ==
  \A p \in Clients :
    Raised(p, AppError("This Korean manhwa is already in the database", 400, "bad_input")) =>
      /\ proc[p].result.status = 400
      /\ proc[p].result.appCode = "bad_input"
      /\ proc[p].result.message = "This Korean manhwa is already in the database"
      /\ proc[p].id \notin RowIds

\* C14: no two rows of the Store have the same mangadexId, and a row is of
\* dataSource LOCAL exactly if it has no mangadexId, whatever the
\* interleaving of createManhwa, importFromMangadex and syncFromMangadex.
C14_UniqueUpstreamId ==
  /\ \A i, j \in RowIds :
       /\ i # j /\ store[i].present /\ store[j].present
       /\ store[i].mangadexId # "null"
       => store[i].mangadexId # store[j].mangadexId
  /\ \A i \in RowIds :
       store[i].present => (store[i].dataSource = "LOCAL" <=> store[i].mangadexId = "null")

\* two imports of one mangadexId ran concurrently: both passed the findUnique
\* and fetched, one inserted the row and the other was refused by the Store
C14_Witness ==
  \E p, q \in Clients :
    /\ proc[p].stage = "done" /\ proc[p].op = "import" /\ proc[p].result.ok
    /\ Raised(q, UniqueConstraintFailed) /\ proc[q].op = "import"
    /\ proc[q].u = proc[p].u

\* a syncFromMangadex of row id at the given stage takes its step
SyncStep(id, stage) ==
  \E p \in Procs :
    /\ proc[p].stage = stage /\ proc[p].op # "import" /\ proc[p].id = id
    /\ proc'[p] # proc[p]

\* C15: the version of a row never decreases; it changes by exactly one, at
\* the update of a syncFromMangadex of the row whose fetch has succeeded, and
\* every such update changes it; any other change of a row is that of a
\* syncFromMangadex of the row that failed, which sets syncStatus to FAILED
\* and leaves version, lastSyncedAt and the content as they were.
C15_VersionStepsBySync ==
  [][\A id \in RowIds :
       store[id].present =>
         /\ store'[id].present
         /\ store'[id].version >= store[id].version
         /\ store'[id].version # store[id].version =>
               /\ store'[id].version = store[id].version + 1
               /\ SyncStep(id, "update")
         /\ SyncStep(id, "update") => store'[id].version = store[id].version + 1
         /\ store'[id] # store[id] /\ store'[id].version = store[id].version =>
               /\ SyncStep(id, "fetch")
               /\ store'[id] = [store[id] EXCEPT !.syncStatus = "FAILED"]]_vars

\* a row was synced with success and then a sync of it failed
C15_Witness ==
  \E id \in RowIds :
    store[id].present /\ store[id].version = 2 /\ store[id].syncStatus = "FAILED"

\* row id is of dataSource LOCAL
Local(id) == store[id].present /\ store[id].dataSource = "LOCAL"

\* C16: a row of dataSource LOCAL is never synchronised: no getManhwaById,
\* forced or not, no refresh in the background, no refresh or sync endpoint
\* and no run of the sync job has a request to Mangadex or an update under
\* way for it, and no step changes its lastSyncedAt, syncStatus or version.
C16_LocalNeverSynced ==
  /\ [](\A p \in Procs :
          proc[p].stage \in Syncing /\ proc[p].op \notin {"import", "create"} =>
            ~Local(proc[p].id))
  /\ [][\A id \in RowIds :
          Local(id) =>
            /\ store'[id].lastSyncedAt = store[id].lastSyncedAt
            /\ store'[id].syncStatus = store[id].syncStatus
            /\ store'[id].version = store[id].version]_vars

\* getManhwaById with forceRefresh has returned a LOCAL row, and the refresh
\* endpoint has refused one
C16_Witness ==
  /\ \E p \in Clients :
       /\ proc[p].stage = "done" /\ proc[p].op = "get" /\ proc[p].force
       /\ proc[p].result.ok /\ proc[p].result.entity.dataSource = "LOCAL"
       /\ Local(proc[p].id)
  /\ \E q \in Clients :
       /\ proc[q].stage = "done" /\ proc[q].op \in {"refresh", "adminSync"}
       /\ proc[q].result = AppError("not a Mangadex manhwa", 400, "bad_input")
       /\ Local(proc[q].id)

\* C17: an entity answered from the entity cache, by getManhwaById or by
\* getManhwaByIds, was cached no longer than the entity ttl ago.
C17_CachedEntityWithinTtl ==
  \A p \in Clients :
    proc[p].stage = "done" /\ proc[p].result.kind \in {"entity", "entities"} =>
      proc[p].result.age <= EntityTTL

\* the syncFromMangadex that the getManhwaById of p awaits fails
GetSyncFails(p) ==
  /\ proc[p].stage = "fetch" /\ proc[p].caller = "getManhwaById"
  /\ proc'[p] # proc[p] /\ proc'[p].stage # "update"

SyncFailure(p) ==
  /\ proc[p].stage = "fetch" /\ proc[p].op # "import"
  /\ proc'[p] # proc[p] /\ proc'[p].stage # "update"

\* C23: whenever syncFromMangadex fails, for whatever reason, the row has
\* syncStatus FAILED afterwards and the error its caller receives is the
\* AppError with the code SyncFailed.
C23_FailureMarksAndWraps ==
  [][\A p \in Procs :
       SyncFailure(p) =>
         /\ store'[proc[p].id].syncStatus = "FAILED"
         /\ proc[p].caller # "getManhwaById" =>
               proc'[p].result = AppError("Sync failed", 500, "sync_failed")]_vars

\* C24: the entity cache holds nothing for an id before the row of that id
\* is inserted, an entry appears for it only as a read stores the row it
\* has loaded from the Store, and a getManhwaById of a row that createManhwa
\* inserted returns that row as inserted.
C24_ReadAfterCreate ==
  /\ [](\A id \in RowIds :
          /\ ~store[id].present => ~entityCache[id].present
          /\ Local(id) /\ entityCache[id].present => entityCache[id].val = CreatedRow
          /\ Local(id) => store[id] = CreatedRow)
  /\ [](\A p \in Clients :
          /\ proc[p].stage = "done" /\ proc[p].op = "get" /\ proc[p].result.ok
          /\ Local(proc[p].id)
          => proc[p].result.entity = CreatedRow)
  /\ [][\A id \in RowIds :
          ~entityCache[id].present /\ entityCache'[id].present =>
            /\ entityCache'[id].val \in {store[id], store'[id]} \cup
                                         {proc[p].held : p \in {q \in Clients : proc[q].stage = "fetch"}}
            /\ \E p \in Clients :
                 proc[p].stage \in {"find", "fetch", "refetch", "findMany"}
                   /\ proc'[p] # proc[p]]_vars

\* createManhwa has inserted a row and the getManhwaById of its id that
\* followed was answered from the Store with that row
C24_Witness ==
  \E p, q \in Clients :
    /\ proc[p].stage = "done" /\ proc[p].op = "create" /\ proc[p].result.ok
    /\ proc[q].stage = "done" /\ proc[q].op = "get" /\ proc[q].result.ok
    /\ proc[q].id = proc[p].id
    /\ ~proc[q].result.cached
    /\ proc[q].result.entity = proc[p].result.entity

\* no operation on row id is under way
Quiet(id) == \A p \in Procs : proc[p].stage \in {"idle", "done"} \/ proc[p].id # id

\* C26: once a getManhwaById(id) on the miss path and the syncs of id beside
\* it have completed, the entity cache has no entry for id or the entry holds
\* the row as the last successful sync wrote it: no row read before that
\* write is left in the cache.
C26_NoRowFromBeforeSyncCached ==
  \A id \in RowIds :
    Quiet(id) /\ GetEntityCache(id).present =>
      /\ GetEntityCache(id).val.version = store[id].version
      /\ GetEntityCache(id).val.content = store[id].content
      /\ GetEntityCache(id).val.lastSyncedAt = store[id].lastSyncedAt

----------------------------------------------------------------------------
(* Properties of the selection of queueOutdatedManhwa *)

\* a row of kind a comes before a row of kind b: FAILED before all others;
\* of two rows alike in that, both synced before, the one synced longer ago
FailedFirst(a, b) ==
  IF (a.syncStatus = "FAILED") # (b.syncStatus = "FAILED") THEN a.syncStatus = "FAILED"
  ELSE /\ a.lastSyncedAt.present /\ b.lastSyncedAt.present
       /\ a.lastSyncedAt.at < b.lastSyncedAt.at

\* C32: queueOutdatedManhwa selects at most 100 of the rows that qualify, the
\* FAILED rows before all others and then the rows synced longest ago, so no
\* row is selected while a row that comes before it in that order is left
\* out; FAILED rows are queued with priority 0 and the others with priority 1.
C32_FailedRowsSelectedFirst ==
  fnOut.applied =>
    /\ SumOver(fnOut.selected, RowKinds) <= Take
    /\ \A a, b \in RowKinds :
         FailedFirst(a, b) /\ IsOutdated(RowOf(a)) /\ fnOut.selected[a] < fnIn[a] =>
           fnOut.selected[b] = 0
    /\ \A k \in RowKinds : fnOut.priority[k] = 0 <=> k.syncStatus = "FAILED"

----------------------------------------------------------------------------
(* Properties of the refresh in the background *)

\* the syncFromMangadex of id that refreshInBackground has under way
Refreshes(id) ==
  {b \in DOMAIN proc : /\ proc[b].stage \in Syncing
                        /\ proc[b].op = "refreshInBackground" /\ proc[b].id = id}

\* C37: the cache hits of getManhwaById on a stale entity start at most one
\* refresh of the id at a time: while a refresh in the background is under
\* way for the id, no second one is.
C37_OneRefreshAtATime == \A id \in RowIds : Cardinality(Refreshes(id)) <= 1


----------------------------------------------------------------------------
(* Properties of the cached row against the Store *)

\* C38: whenever the entity cache holds an entry for id and no operation on
\* id is under way, the cached row has the syncStatus and the version of the
\* row of the Store, also after a syncFromMangadex of id that failed and
\* wrote FAILED.
C38_CachedStatusAndVersionAreTheStores ==
  \A id \in RowIds :
    Quiet(id) /\ GetEntityCache(id).present =>
      /\ GetEntityCache(id).val.syncStatus = store[id].syncStatus
      /\ GetEntityCache(id).val.version = store[id].version


----------------------------------------------------------------------------
(* Properties of the tag cache *)

\* C39: a tag fetch that failed is never stored in the tag cache: the entry
\* 'mangadex:tags' is absent or holds the mapping of the tags Mangadex
\* returned, so that a search after a failed fetch fetches the tags again.
C39_FailedTagFetchNotCached ==
  /\ tagCache # "empty"
  /\ \A c \in Callers :
       req[c].stage = "sent" /\ req[c].op = "search" /\ req[c].url = "manga" =>
         tagCache = "full"


----------------------------------------------------------------------------
(* Properties of the coalescer under clearAll *)

\* C40: the completion of a producer removes its own registration only: a
\* step in which a producer completes leaves the registration of every
\* other producer in place, also when clearAll has dropped the completing
\* producer's registration and a later coalesce of its key registered
\* another, so that a further coalesce of the key joins that one.
C40_CompletionRemovesOwnRegistrationOnly ==
  [][\A p \in PromIds, k \in DOMAIN pending :
       /\ prom[p].state = "fnSettled" /\ prom'[p] = Free
       /\ HasPending(k) /\ pending[k] # p
       => pending'[k] = pending[k]]_vars

============================================================================
